---- MODULE Spec2Model ----
(***************************************************************************)
(* func_apply: dynamic invocation of catalog functions by name, gated by a *)
(* per-session security policy (src/src/func_apply_extension.cpp).         *)
(*                                                                         *)
(* Strings that the code inspects character by character or case-folds    *)
(* (function names, list elements) are sequences of ASCII codes, so that   *)
(* StringUtil::Lower and IsValidIdentifier are computed, not assumed.      *)
(* Enumerated settings that the code only compares (mode, on_block) and    *)
(* the tags of the model (error types, event names) are TLA+ strings.      *)
(*                                                                         *)
(* One action is one evaluation of an entry point on one row: the scalar   *)
(* handlers loop over the rows of a chunk and run the same body per row,   *)
(* stopping at the first row that throws.  The per-row lambdas driven by   *)
(* UnaryExecutor (set_security_mode, set_validator, set_on_block,          *)
(* function_exists) are entered for non-NULL rows only, so their inputs    *)
(* here are non-NULL strings.                                              *)
(*                                                                         *)
(* last holds the call being answered: its inputs, what it returned or     *)
(* threw, and the order of the steps it took.  A session takes the next    *)
(* call after the answer has been handed to the host (Return).             *)
(***************************************************************************)
EXTENDS Integers, Sequences, FiniteSets, TLC

VARIABLES security_configs, last, security_config_mutex

vars == <<security_configs, last, security_config_mutex>>

(***************************************************************************)
(* Bounds                                                                  *)
(***************************************************************************)
\* largest number of positional arguments passed to an entry point
MaxArgs == 1

(***************************************************************************)
(* Names (ASCII)                                                           *)
(***************************************************************************)
n_load            == <<108, 111, 97, 100>>
n_install         == <<105, 110, 115, 116, 97, 108, 108>>
n_uninstall       == <<117, 110, 105, 110, 115, 116, 97, 108, 108>>
n_force_install   == <<102, 111, 114, 99, 101, 95, 105, 110, 115, 116, 97, 108, 108>>
n_system          == <<115, 121, 115, 116, 101, 109>>
n_getenv          == <<103, 101, 116, 101, 110, 118>>
n_export_database == <<101, 120, 112, 111, 114, 116, 95, 100, 97, 116, 97, 98, 97, 115, 101>>
n_import_database == <<105, 109, 112, 111, 114, 116, 95, 100, 97, 116, 97, 98, 97, 115, 101>>
n_create_secret   == <<99, 114, 101, 97, 116, 101, 95, 115, 101, 99, 114, 101, 116>>
n_drop_secret     == <<100, 114, 111, 112, 95, 115, 101, 99, 114, 101, 116>>
n_upper           == <<117, 112, 112, 101, 114>>
n_Upper           == <<85, 112, 112, 101, 114>>
n_GetEnv          == <<71, 101, 116, 69, 110, 118>>
n_range           == <<114, 97, 110, 103, 101>>
n_sum             == <<115, 117, 109>>
n_nosuch          == <<110, 111, 115, 117, 99, 104>>
n_1x              == <<49, 120>>
n_allow_all       == <<97, 108, 108, 111, 119, 95, 97, 108, 108>>
n_deny_all        == <<100, 101, 110, 121, 95, 97, 108, 108>>
n_ret_null        == <<114, 101, 116, 95, 110, 117, 108, 108>>
n_boom            == <<98, 111, 111, 109>>
n_arity1          == <<97, 114, 105, 116, 121, 49>>
n_glob            == <<103, 108, 111, 98>>
n_my_udf          == <<109, 121, 95, 117, 100, 102>>
n_my_view         == <<109, 121, 95, 118, 105, 101, 119>>
n_array_append    == <<97, 114, 114, 97, 121, 95, 97, 112, 112, 101, 110, 100>>
n_hi              == <<104, 105>>
n_k               == <<107>>
EmptyString       == <<>>

\* pieces of text the code writes or compares
s_select_from == <<83, 69, 76, 69, 67, 84, 32, 42, 32, 70, 82, 79, 77, 32>>   \* "SELECT * FROM "
s_select      == <<83, 69, 76, 69, 67, 84>>                                   \* "SELECT"
s_NULL        == <<78, 85, 76, 76>>                                           \* "NULL"
s_BLOB        == <<66, 76, 79, 66>>                                           \* "BLOB"
s_DATE        == <<68, 65, 84, 69>>                                           \* "DATE"
s_TIME        == <<84, 73, 77, 69>>                                           \* "TIME"
s_TIMESTAMP   == <<84, 73, 77, 69, 83, 84, 65, 77, 80>>                       \* "TIMESTAMP"
s_INTERVAL    == <<73, 78, 84, 69, 82, 86, 65, 76>>                           \* "INTERVAL"
s_UUID        == <<85, 85, 73, 68>>                                           \* "UUID"
s_true        == <<116, 114, 117, 101>>                                       \* "true"
s_false       == <<102, 97, 108, 115, 101>>                                   \* "false"
s_args        == <<97, 114, 103, 115>>                                        \* "args"
s_kwargs      == <<107, 119, 97, 114, 103, 115>>                              \* "kwargs"
s_assign      == <<32, 58, 61, 32>>                                           \* " := "
s_comma       == <<44, 32>>                                                   \* ", "
s_keysep      == <<39, 58, 32>>                                               \* "': "
s_cast        == <<39, 58, 58>>                                               \* "'::"

\* Default blacklist of dangerous functions
DEFAULT_BLACKLIST ==
    << n_load, n_install, n_uninstall, n_force_install,
       n_system, n_getenv,
       n_export_database, n_import_database,
       n_create_secret, n_drop_secret >>

(***************************************************************************)
(* Character and string helpers                                            *)
(***************************************************************************)
IsUpperChar(c) == c >= 65 /\ c <= 90
IsLowerChar(c) == c >= 97 /\ c <= 122
IsDigitChar(c) == c >= 48 /\ c <= 57
\* std::isalpha / std::isalnum in the "C" locale
IsAlpha(c) == IsUpperChar(c) \/ IsLowerChar(c)
IsAlnum(c) == IsAlpha(c) \/ IsDigitChar(c)

LowerChar(c) == IF IsUpperChar(c) THEN c + 32 ELSE c
UpperChar(c) == IF IsLowerChar(c) THEN c - 32 ELSE c

\* a variant that leaves the name as it is: a missing case fold
Lower_Identity(s) == s

\* StringUtil::Lower
Lower(s) == [i \in 1..Len(s) |-> LowerChar(s[i])]

\* upper() of the host, used as the sample scalar
Upper(s) == [i \in 1..Len(s) |-> UpperChar(s[i])]

\* Validate that a string is a valid SQL identifier
IsValidIdentifier(name) ==
    IF Len(name) = 0 THEN FALSE
    ELSE IF ~IsAlpha(name[1]) /\ name[1] # 95 THEN FALSE
    ELSE \A i \in 2..Len(name) : IsAlnum(name[i]) \/ name[i] = 95

SeqToSet(s) == { s[i] : i \in 1..Len(s) }

(***************************************************************************)
(* Values                                                                  *)
(***************************************************************************)
\* Value(): the untyped NULL
NullValue == [t |-> "NULL", null |-> TRUE, v |-> <<>>]
TypedNull(t) == [t |-> t, null |-> TRUE, v |-> <<>>]
\* v is the text Value::ToString() gives for a value that has no children
StrV(s) == [t |-> "VARCHAR", null |-> FALSE, v |-> s]
BoolV(b) == [t |-> "BOOLEAN", null |-> FALSE, v |-> IF b THEN s_true ELSE s_false]
IntV(digits) == [t |-> "INTEGER", null |-> FALSE, v |-> digits]
\* Value::LIST(children)
ListV(children) == [t |-> "LIST", null |-> FALSE, v |-> <<>>, children |-> children]
\* Value::STRUCT(children): a sequence of [key, value]
StructV(children) == [t |-> "STRUCT", null |-> FALSE, v |-> <<>>, children |-> children]
\* a text result built from a fixed message and a variable part
Message(text, part) == [t |-> "VARCHAR", null |-> FALSE, v |-> part, msg |-> text]

\* BooleanValue::Get
BooleanValueGet(val) == val.v = s_true

\* to_string(i) for a small index
to_string(i) == IF i < 10 THEN <<48 + i>> ELSE <<48 + (i \div 10), 48 + (i % 10)>>

(***************************************************************************)
(* The host catalog (external): a system catalog and the default database  *)
(* catalog, each holding a set of scalar/aggregate/macro entries and a set *)
(* of table-function entries.  Lookup is case-insensitive and is by name   *)
(* within the set the requested type belongs to: the type of the entry it  *)
(* returns is NOT checked against the requested type.                      *)
(***************************************************************************)
SCALAR_FUNCTION_ENTRY    == "SCALAR_FUNCTION_ENTRY"
AGGREGATE_FUNCTION_ENTRY == "AGGREGATE_FUNCTION_ENTRY"
TABLE_FUNCTION_ENTRY     == "TABLE_FUNCTION_ENTRY"
MACRO_ENTRY              == "MACRO_ENTRY"
\* a table macro: an entry kind the extension never asks for, kept by the
\* host in the same set as the table functions
TABLE_MACRO_ENTRY        == "TABLE_MACRO_ENTRY"
INVALID                  == "INVALID"

NoEntry == [name |-> <<>>, type |-> INVALID]
Entry(n, t) == [name |-> n, type |-> t]

SystemCatalog ==
    { Entry(n_upper, SCALAR_FUNCTION_ENTRY),
      Entry(n_getenv, SCALAR_FUNCTION_ENTRY),
      Entry(n_range, SCALAR_FUNCTION_ENTRY),
      Entry(n_range, TABLE_FUNCTION_ENTRY),
      Entry(n_sum, AGGREGATE_FUNCTION_ENTRY),
      Entry(n_glob, TABLE_FUNCTION_ENTRY),
      Entry(n_array_append, MACRO_ENTRY) }

\* user-defined macros and functions of the default database; upper is also
\* the name of a macro there
DefaultCatalog ==
    { Entry(n_upper, MACRO_ENTRY),
      Entry(n_my_udf, SCALAR_FUNCTION_ENTRY),
      Entry(n_my_view, TABLE_MACRO_ENTRY),
      Entry(n_allow_all, MACRO_ENTRY),
      Entry(n_deny_all, MACRO_ENTRY),
      Entry(n_ret_null, MACRO_ENTRY),
      Entry(n_boom, MACRO_ENTRY),
      Entry(n_arity1, MACRO_ENTRY) }

CatalogSetOf(type) ==
    IF type \in {TABLE_FUNCTION_ENTRY, TABLE_MACRO_ENTRY} THEN "table_functions"
    ELSE "functions"

\* catalog.GetEntry(context, type, DEFAULT_SCHEMA, name, RETURN_NULL)
GetEntry(catalog, type, name) ==
    LET hits == { e \in catalog : e.name = Lower(name)
                                  /\ CatalogSetOf(e.type) = CatalogSetOf(type) }
    IN IF hits = {} THEN NoEntry ELSE CHOOSE e \in hits : TRUE

(***************************************************************************)
(* The host binder and evaluator (external), for the sample callables.     *)
(***************************************************************************)
\* numbers of arguments each callable binds with
Arities(name) ==
    LET n == Lower(name) IN
    IF n \in {n_upper, n_getenv, n_arity1} THEN {1}
    ELSE IF n = n_range THEN {1, 2}
    ELSE IF n \in {n_allow_all, n_deny_all, n_ret_null, n_boom} THEN {2}
    ELSE {}

\* FunctionBinder::BindScalarFunction / ConstantBinder::Bind: TRUE when the
\* binder accepts the arguments
BinderAccepts(name, args) == Len(args) \in Arities(name)

\* ExpressionExecutor::EvaluateScalar on the bound expression
EvaluateScalar(name, args) ==
    LET n == Lower(name) IN
    IF n = n_upper THEN
        [raised |-> FALSE,
         value |-> IF args[1].null THEN TypedNull("VARCHAR") ELSE StrV(Upper(args[1].v))]
    ELSE IF n = n_getenv THEN [raised |-> FALSE, value |-> TypedNull("VARCHAR")]
    ELSE IF n = n_range THEN [raised |-> FALSE, value |-> ListV(<<>>)]
    ELSE IF n \in {n_allow_all, n_arity1} THEN [raised |-> FALSE, value |-> BoolV(TRUE)]
    ELSE IF n = n_deny_all THEN [raised |-> FALSE, value |-> BoolV(FALSE)]
    ELSE IF n = n_ret_null THEN [raised |-> FALSE, value |-> TypedNull("BOOLEAN")]
    ELSE [raised |-> TRUE, value |-> NullValue]

(***************************************************************************)
(* Results, errors, events                                                 *)
(***************************************************************************)
NoError == [type |-> "none", name |-> <<>>, detail |-> "", via |-> ""]
Err(type, name, detail) == [type |-> type, name |-> name, detail |-> detail, via |-> ""]

Ev(e, n) == [e |-> e, n |-> n]

\* a value returned
Ret(value, trace) == [ok |-> TRUE, value |-> value, err |-> NoError, trace |-> trace]
\* an exception thrown
Fail(err, trace) == [ok |-> FALSE, value |-> NullValue, err |-> err, trace |-> trace]

(***************************************************************************)
(* Security configuration per session                                      *)
(***************************************************************************)
Modes == {"none", "blacklist", "whitelist", "validator"}
OnBlocks == {"error", "null", "default"}

\* FuncApplySecurityConfig(): the member initialisers and the constructor
FuncApplySecurityConfig ==
    [ mode           |-> "none",
      blacklist      |-> { Lower(DEFAULT_BLACKLIST[i]) : i \in 1..Len(DEFAULT_BLACKLIST) },
      whitelist      |-> {},
      validator_func |-> EmptyString,
      on_block       |-> "error",
      block_default  |-> NullValue,
      locked         |-> FALSE ]

\* variant: a fresh config on every access
GetSecurityConfig_Recreate(configs, context) == [c \in DOMAIN configs \cup {context} |-> IF c = context THEN FuncApplySecurityConfig ELSE configs[c]]

\* Get or create security config for a session: the map after the call
GetSecurityConfig(configs, context) ==
    IF context \in DOMAIN configs THEN configs
    ELSE [c \in DOMAIN configs \cup {context} |->
            IF c = context THEN FuncApplySecurityConfig ELSE configs[c]]

\* the config GetSecurityConfig returns a reference to
Config(configs, context) == GetSecurityConfig(configs, context)[context]

(***************************************************************************)
(* Callable resolver                                                       *)
(***************************************************************************)
\* Helper to check if a function of a specific type exists
FunctionExistsOfType(func_name, type) ==
    LET entry == GetEntry(SystemCatalog, type, func_name)
        user_entry == GetEntry(DefaultCatalog, type, func_name)
    IN IF entry # NoEntry /\ entry.type = type THEN TRUE
       ELSE IF user_entry # NoEntry /\ user_entry.type = type THEN TRUE
       ELSE FALSE

\* variant: macros are preferred to scalar functions
GetCallableFunctionType_MacroFirst(func_name) == IF FunctionExistsOfType(func_name, MACRO_ENTRY) THEN MACRO_ENTRY ELSE IF FunctionExistsOfType(func_name, SCALAR_FUNCTION_ENTRY) THEN SCALAR_FUNCTION_ENTRY ELSE INVALID

\* Order matters: prefer scalar functions, then macros
GetCallableFunctionType(func_name) ==
    IF FunctionExistsOfType(func_name, SCALAR_FUNCTION_ENTRY) THEN SCALAR_FUNCTION_ENTRY
    ELSE IF FunctionExistsOfType(func_name, MACRO_ENTRY) THEN MACRO_ENTRY
    ELSE INVALID

\* a variant that asks for the wrong category
TableFunctionExists_Scalar(func_name) == FunctionExistsOfType(func_name, SCALAR_FUNCTION_ENTRY)

\* variant: every name is taken for a table function
TableFunctionExists_Always(func_name) == TRUE

TableFunctionExists(func_name) == FunctionExistsOfType(func_name, TABLE_FUNCTION_ENTRY)

(***************************************************************************)
(* Call descriptor handed to a validator                                   *)
(***************************************************************************)
\* named_args is the sequence of [key, value] pairs in the map's iteration order
BuildParameters(positional_args, named_args) ==
    [ t |-> "STRUCT", null |-> FALSE, v |-> <<>>, children |-> <<>>,
      total_args |-> Len(positional_args) + Len(named_args),
      positional |->
        [ arg_indexes |-> [i \in 1..Len(positional_args) |-> to_string(i)],
          arg_types   |-> [i \in 1..Len(positional_args) |-> positional_args[i].t],
          arg_values  |-> [i \in 1..Len(positional_args) |->
                             [key |-> to_string(i), value |-> positional_args[i]]] ],
      named |->
        [ arg_names  |-> [i \in 1..Len(named_args) |-> named_args[i].key],
          arg_types  |-> [i \in 1..Len(named_args) |-> named_args[i].value.t],
          arg_values |-> named_args ] ]

(***************************************************************************)
(* Security policy engine and invocation engine                            *)
(***************************************************************************)
RECURSIVE ExecuteFunctionInternal(_, _, _, _, _)

\* the binder of the scalar path or of the macro path is called
Bound(func_name, kind) == [e |-> "Bind", n |-> func_name, kind |-> kind]

\* the validator is called with the descriptor parameters
Called(validator_name, parameters) ==
    [e |-> "CallValidator", n |-> validator_name, parameters |-> parameters]

\* a variant in which a validator's NULL answer allows the call
CallValidator_NullAllows(configs, context, validator_name, func_name, positional_args, named_args) ==
    LET parameters == BuildParameters(positional_args, named_args)
        validator_args == <<StrV(func_name), parameters>>
        Answer(result) ==
            LET trace == <<Called(validator_name, parameters)>> \o result.trace
                         \o <<Ev("EndValidator", validator_name)>>
            IN IF ~result.ok
               THEN [ok |-> FALSE, allowed |-> FALSE,
                     err |-> Err("ValidatorFailed", validator_name, result.err.type),
                     trace |-> trace]
               ELSE [ok |-> TRUE,
                     allowed |-> IF result.value.null THEN TRUE
                                 ELSE BooleanValueGet(result.value),
                     err |-> NoError, trace |-> trace]
    IN Answer(ExecuteFunctionInternal(configs, context, validator_name, validator_args, TRUE))

\* a variant that swallows the validator's exception and answers "denied"
CallValidator_Swallow(configs, context, validator_name, func_name, positional_args, named_args) ==
    LET parameters == BuildParameters(positional_args, named_args)
        validator_args == <<StrV(func_name), parameters>>
        Answer(result) ==
            LET trace == <<Called(validator_name, parameters)>> \o result.trace
                         \o <<Ev("EndValidator", validator_name)>>
            IN IF ~result.ok
               THEN [ok |-> TRUE, allowed |-> FALSE, err |-> NoError, trace |-> trace]
               ELSE [ok |-> TRUE,
                     allowed |-> IF result.value.null THEN FALSE
                                 ELSE BooleanValueGet(result.value),
                     err |-> NoError, trace |-> trace]
    IN Answer(ExecuteFunctionInternal(configs, context, validator_name, validator_args, TRUE))

\* Call the validator function to check if a call is allowed.
\* Result: [ok, allowed, err, trace]; ok = FALSE is the re-thrown exception.
CallValidator(configs, context, validator_name, func_name, positional_args, named_args) ==
    LET parameters == BuildParameters(positional_args, named_args)
        validator_args == <<StrV(func_name), parameters>>
        \* try { ... } catch: the validator's answer, or its exception wrapped
        Answer(result) ==
            LET trace == <<Called(validator_name, parameters)>> \o result.trace
                         \o <<Ev("EndValidator", validator_name)>>
            IN IF ~result.ok
               THEN [ok |-> FALSE, allowed |-> FALSE,
                     err |-> Err("ValidatorFailed", validator_name, result.err.type),
                     trace |-> trace]
               ELSE [ok |-> TRUE,
                     allowed |-> IF result.value.null THEN FALSE
                                 ELSE BooleanValueGet(result.value),
                     err |-> NoError, trace |-> trace]
    IN Answer(ExecuteFunctionInternal(configs, context, validator_name, validator_args, TRUE))

\* the common tail of ValidateFunctionCall: on_block decides what a denial does
BlockOrAllow(config, func_name, allowed, trace) ==
    IF ~allowed
    THEN IF config.on_block = "error"
         THEN [ok |-> FALSE, allowed |-> FALSE,
               err |-> Err("Blocked", func_name, config.mode), trace |-> trace]
         ELSE [ok |-> TRUE, allowed |-> FALSE, err |-> NoError, trace |-> trace]
    ELSE [ok |-> TRUE, allowed |-> TRUE, err |-> NoError, trace |-> trace]

\* a variant without the check for an empty validator name
ValidateFunctionCall_NoNameCheck(configs, context, func_name, positional_args, named_args) ==
    LET config == Config(configs, context)
        t0 == <<Ev("ValidateFunctionCall", func_name), Ev("GetSecurityConfig", EmptyString)>>
        lower_name == Lower(func_name)
        Validated(cv) ==
            IF ~cv.ok
            THEN [ok |-> FALSE, allowed |-> FALSE, err |-> cv.err, trace |-> t0 \o cv.trace]
            ELSE BlockOrAllow(config, func_name, cv.allowed, t0 \o cv.trace)
    IN IF config.mode = "none"
       THEN [ok |-> TRUE, allowed |-> TRUE, err |-> NoError, trace |-> t0]
       ELSE IF config.mode = "blacklist"
       THEN BlockOrAllow(config, func_name, lower_name \notin config.blacklist, t0)
       ELSE IF config.mode = "whitelist"
       THEN BlockOrAllow(config, func_name, lower_name \in config.whitelist, t0)
       ELSE IF config.mode = "validator"
       THEN Validated(CallValidator(configs, context, config.validator_func,
                                    func_name, positional_args, named_args))
       ELSE BlockOrAllow(config, func_name, FALSE, t0)

\* a variant that applies the blacklist in mode "none" as well
ValidateFunctionCall_NoneUsesBlacklist(configs, context, func_name, positional_args, named_args) ==
    LET config == Config(configs, context)
        t0 == <<Ev("ValidateFunctionCall", func_name), Ev("GetSecurityConfig", EmptyString)>>
        lower_name == Lower(func_name)
        Validated(cv) ==
            IF ~cv.ok
            THEN [ok |-> FALSE, allowed |-> FALSE, err |-> cv.err, trace |-> t0 \o cv.trace]
            ELSE BlockOrAllow(config, func_name, cv.allowed, t0 \o cv.trace)
    IN IF config.mode \in {"none", "blacklist"}
       THEN BlockOrAllow(config, func_name, lower_name \notin config.blacklist, t0)
       ELSE IF config.mode = "whitelist"
       THEN BlockOrAllow(config, func_name, lower_name \in config.whitelist, t0)
       ELSE IF config.mode = "validator"
       THEN IF config.validator_func = EmptyString
            THEN [ok |-> FALSE, allowed |-> FALSE,
                  err |-> Err("Misconfigured", EmptyString, "no validator function set"),
                  trace |-> t0]
            ELSE Validated(CallValidator(configs, context, config.validator_func,
                                         func_name, positional_args, named_args))
       ELSE BlockOrAllow(config, func_name, FALSE, t0)

\* Validate a function call against the security policy.
\* Result: [ok, allowed, err, trace]; ok = FALSE is a thrown exception.
ValidateFunctionCall(configs, context, func_name, positional_args, named_args) ==
    LET config == Config(configs, context)
        t0 == <<Ev("ValidateFunctionCall", func_name), Ev("GetSecurityConfig", EmptyString)>>
        lower_name == Lower(func_name)
        \* allowed = CallValidator(...), an exception of it passing through
        Validated(cv) ==
            IF ~cv.ok
            THEN [ok |-> FALSE, allowed |-> FALSE, err |-> cv.err, trace |-> t0 \o cv.trace]
            ELSE BlockOrAllow(config, func_name, cv.allowed, t0 \o cv.trace)
    IN IF config.mode = "none"
       THEN [ok |-> TRUE, allowed |-> TRUE, err |-> NoError, trace |-> t0]
       ELSE IF config.mode = "blacklist"
       THEN BlockOrAllow(config, func_name, lower_name \notin config.blacklist, t0)
       ELSE IF config.mode = "whitelist"
       THEN BlockOrAllow(config, func_name, lower_name \in config.whitelist, t0)
       ELSE IF config.mode = "validator"
       THEN IF config.validator_func = EmptyString
            THEN [ok |-> FALSE, allowed |-> FALSE,
                  err |-> Err("Misconfigured", EmptyString, "no validator function set"),
                  trace |-> t0]
            ELSE Validated(CallValidator(configs, context, config.validator_func,
                                         func_name, positional_args, named_args))
       ELSE BlockOrAllow(config, func_name, FALSE, t0)

\* a variant that answers NULL whatever on_block says
GetBlockedValue_Null(configs, context) == NullValue

\* Get the blocked return value based on on_block setting
GetBlockedValue(configs, context) ==
    LET config == Config(configs, context)
    IN IF config.on_block = "null" THEN NullValue
       ELSE IF config.on_block = "default" THEN config.block_default
       ELSE NullValue

\* ExecuteFunctionInternal after the security check: classify, bind, evaluate
InvokeCallable(func_name, args, trace) ==
    LET t1 == trace \o <<Ev("GetCallableFunctionType", func_name)>>
        \* the callable bound and evaluated, on the path of its kind
        Evaluated(kind, out) ==
            LET t2 == t1 \o <<Bound(func_name, kind)>>
                t3 == t2 \o <<Ev("Evaluate", func_name)>>
            IN IF ~BinderAccepts(func_name, args)
               THEN Fail(Err("BindFailure", func_name, kind), t2)
               ELSE IF out.raised THEN Fail(Err("EvalFailure", func_name, kind), t3)
               ELSE Ret(out.value, t3)
        Classified(func_type) ==
            IF func_type = INVALID
            THEN \* Check if it's a table function to give a better error message
                 IF TableFunctionExists(func_name)
                 THEN Fail(Err("NotFound", func_name, "is a table function"),
                           t1 \o <<Ev("TableFunctionExists", func_name)>>)
                 ELSE Fail(Err("NotFound", func_name, "does not exist"),
                           t1 \o <<Ev("TableFunctionExists", func_name)>>)
            ELSE IF func_type = SCALAR_FUNCTION_ENTRY
            THEN \* FunctionBinder directly
                 Evaluated("scalar", EvaluateScalar(func_name, args))
            ELSE IF func_type = MACRO_ENTRY
            THEN \* full expression binding through ConstantBinder
                 Evaluated("macro", EvaluateScalar(func_name, args))
            ELSE Fail(Err("NotFound", func_name, "is not a scalar function or macro"), t1)
    IN Classified(GetCallableFunctionType(func_name))

\* a variant that never runs the security check
ExecuteFunctionInternal_Unchecked(configs, context, func_name, args, skip_security_check) ==
    InvokeCallable(func_name, args, <<>>)

\* Execute a function by name with given argument values (internal version)
ExecuteFunctionInternal(configs, context, func_name, args, skip_security_check) ==
    LET Checked(chk) ==
            IF ~chk.ok THEN Fail(chk.err, chk.trace)
            ELSE IF ~chk.allowed
            THEN Ret(GetBlockedValue(configs, context),
                     chk.trace \o <<Ev("GetBlockedValue", func_name),
                                    Ev("GetSecurityConfig", EmptyString)>>)
            ELSE InvokeCallable(func_name, args, chk.trace)
    IN IF ~skip_security_check
       THEN Checked(ValidateFunctionCall(configs, context, func_name, args, <<>>))
       ELSE InvokeCallable(func_name, args, <<>>)

\* Public version that always performs security check
ExecuteFunction(configs, context, func_name, args) ==
    ExecuteFunctionInternal(configs, context, func_name, args, FALSE)

(***************************************************************************)
(* Value-to-literal codec                                                  *)
(***************************************************************************)
RECURSIVE EscapeQuotes(_)
\* every single quote doubled
EscapeQuotes(str) ==
    IF str = <<>> THEN <<>>
    ELSE (IF Head(str) = 39 THEN <<39, 39>> ELSE <<Head(str)>>) \o EscapeQuotes(Tail(str))

\* LogicalType::ToString() of the type that takes the default branch here (UUID)
TypeText(t) == s_UUID

NumericTypes ==
    {"BOOLEAN", "TINYINT", "SMALLINT", "INTEGER", "BIGINT", "UTINYINT", "USMALLINT",
     "UINTEGER", "UBIGINT", "FLOAT", "DOUBLE", "HUGEINT", "UHUGEINT"}

RECURSIVE ValueToSQL(_)
RECURSIVE ListItemsToSQL(_, _)
RECURSIVE StructItemsToSQL(_, _)

\* the children of a list from index i on, joined by ", "
ListItemsToSQL(children, i) ==
    IF i > Len(children) THEN <<>>
    ELSE (IF i > 1 THEN s_comma ELSE <<>>) \o ValueToSQL(children[i])
         \o ListItemsToSQL(children, i + 1)

\* the children of a struct from index i on, as 'key': value joined by ", "
StructItemsToSQL(children, i) ==
    IF i > Len(children) THEN <<>>
    ELSE (IF i > 1 THEN s_comma ELSE <<>>)
         \o <<39>> \o children[i].key \o s_keysep \o ValueToSQL(children[i].value)
         \o StructItemsToSQL(children, i + 1)

\* Convert a DuckDB Value to a SQL literal string with proper escaping
ValueToSQL(val) ==
    IF val.null THEN s_NULL
    ELSE IF val.t = "VARCHAR" THEN <<39>> \o EscapeQuotes(val.v) \o <<39>>
    ELSE IF val.t = "BLOB" THEN <<39>> \o val.v \o s_cast \o s_BLOB
    ELSE IF val.t = "LIST" THEN <<91>> \o ListItemsToSQL(val.children, 1) \o <<93>>
    ELSE IF val.t = "STRUCT" THEN <<123>> \o StructItemsToSQL(val.children, 1) \o <<125>>
    ELSE IF val.t \in NumericTypes THEN val.v
    ELSE IF val.t = "DATE" THEN <<39>> \o val.v \o s_cast \o s_DATE
    ELSE IF val.t = "TIME" THEN <<39>> \o val.v \o s_cast \o s_TIME
    ELSE IF val.t = "TIMESTAMP" THEN <<39>> \o val.v \o s_cast \o s_TIMESTAMP
    ELSE IF val.t = "INTERVAL" THEN <<39>> \o val.v \o s_cast \o s_INTERVAL
    ELSE <<39>> \o EscapeQuotes(val.v) \o s_cast \o TypeText(val.t)

(***************************************************************************)
(* The host parser (external), as far as the synthesizer looks at its      *)
(* result: statements are the non-blank pieces between semicolons that lie *)
(* outside single-quoted text; a piece is a SELECT when it starts with the *)
(* keyword; an unterminated quote is a syntax error.                       *)
(***************************************************************************)
QuotesBefore(q, i) == Cardinality({ j \in 1..(i - 1) : q[j] = 39 })
TopLevelSemicolons(q) == { i \in 1..Len(q) : q[i] = 59 /\ QuotesBefore(q, i) % 2 = 0 }
\* the start positions of the pieces
PieceStarts(q) == {1} \cup { i + 1 : i \in TopLevelSemicolons(q) }
PieceEnd(q, start) ==
    LET later == { i \in TopLevelSemicolons(q) : i >= start }
    IN IF later = {} THEN Len(q)
       ELSE (CHOOSE i \in later : \A k \in later : i <= k) - 1
IsBlankPiece(q, start) == \A i \in start..PieceEnd(q, start) : q[i] = 32
FirstNonBlank(q, start) ==
    CHOOSE i \in start..PieceEnd(q, start) :
        q[i] # 32 /\ \A k \in start..(i - 1) : q[k] = 32
IsSelectPiece(q, start) ==
    LET b == FirstNonBlank(q, start)
    IN b + Len(s_select) - 1 <= PieceEnd(q, start)
       /\ \A k \in 1..Len(s_select) : q[b + k - 1] = s_select[k]
\* Parser::ParseQuery: [error, statements], statements the sequence of kinds
StatementStarts(q) == { st \in PieceStarts(q) : st <= Len(q) /\ ~IsBlankPiece(q, st) }
ParseQuery(q) ==
    [ error |-> QuotesBefore(q, Len(q) + 1) % 2 = 1,
      n_statements |-> Cardinality(StatementStarts(q)),
      all_select |-> \A st \in StatementStarts(q) : IsSelectPiece(q, st) ]

\* variant: any number of statements is taken
ParseSubquery_AnyCount(query, trace) == IF ParseQuery(query).error \/ ~ParseQuery(query).all_select THEN Fail(Err("ParseFailure", query, "syntax error"), trace \o <<Ev("ParseQuery", query)>>) ELSE Ret([t |-> "SUBQUERY", null |-> FALSE, v |-> query], trace \o <<Ev("ParseQuery", query)>>)

\* Helper function to parse a query into a SubqueryRef
ParseSubquery(query, trace) ==
    LET parser == ParseQuery(query)
        t1 == trace \o <<Ev("ParseQuery", query)>>
    IN IF parser.error THEN Fail(Err("ParseFailure", query, "syntax error"), t1)
       ELSE IF parser.n_statements # 1 \/ ~parser.all_select
       THEN Fail(Err("ParseFailure", query, "expected a single SELECT statement"), t1)
       ELSE Ret([t |-> "SUBQUERY", null |-> FALSE, v |-> query], t1)

(***************************************************************************)
(* Entry points: function_exists, apply, apply_with                        *)
(***************************************************************************)
FunctionTypes ==
    <<SCALAR_FUNCTION_ENTRY, AGGREGATE_FUNCTION_ENTRY, TABLE_FUNCTION_ENTRY, MACRO_ENTRY>>

\* Helper to check if a function exists in a specific catalog
CheckFunctionExistsInCatalog(catalog, func_name, types) ==
    \E i \in 1..Len(types) : GetEntry(catalog, types[i], func_name) # NoEntry

\* a variant that reports every non-empty name as existing
CheckFunctionExists_NonEmpty(func_name) == func_name # EmptyString

CheckFunctionExists(func_name) ==
    IF func_name = EmptyString THEN FALSE
    ELSE IF CheckFunctionExistsInCatalog(SystemCatalog, func_name, FunctionTypes) THEN TRUE
    ELSE IF CheckFunctionExistsInCatalog(DefaultCatalog, func_name, FunctionTypes) THEN TRUE
    ELSE FALSE

\* the lambda of FunctionExistsScalarFun
FunctionExists(name) ==
    Ret(BoolV(CheckFunctionExists(name)), <<Ev("CheckFunctionExists", name)>>)

\* return type the binder reports for a callable (external)
ReturnTypeOf(func_name) ==
    LET n == Lower(func_name) IN
    IF n \in {n_upper, n_getenv} THEN "VARCHAR"
    ELSE IF n = n_range THEN "LIST"
    ELSE "BOOLEAN"

\* BindApply: the return type apply() is bound with.  name_foldable says
\* whether the name expression is a compile-time constant; arg_count is the
\* number of argument expressions after the name.
BindApply(name_foldable, func_name_val, arg_count) ==
    LET func_name == func_name_val.v
        probe_args == [i \in 1..arg_count |-> NullValue]
        t1 == <<Ev("IsValidIdentifier", func_name)>>
        t2 == t1 \o <<Ev("GetCallableFunctionType", func_name)>>
        t3 == t2 \o <<Ev("Bind", func_name)>>
    IN IF ~name_foldable THEN Ret(TypedNull("VARCHAR"), <<>>)
       ELSE IF func_name_val.null THEN Ret(TypedNull("VARCHAR"), <<>>)
       ELSE IF ~IsValidIdentifier(func_name) THEN Ret(TypedNull("VARCHAR"), t1)
       ELSE IF GetCallableFunctionType(func_name) = SCALAR_FUNCTION_ENTRY
       THEN IF ~BinderAccepts(func_name, probe_args)
            THEN Ret(TypedNull("VARCHAR"), t3)
            ELSE Ret(TypedNull(ReturnTypeOf(func_name)), t3)
       ELSE IF GetCallableFunctionType(func_name) = MACRO_ENTRY
       THEN IF ~BinderAccepts(func_name, probe_args)
            THEN Ret(TypedNull("VARCHAR"), t3)
            ELSE Ret(TypedNull(ReturnTypeOf(func_name)), t3)
       ELSE Ret(TypedNull("VARCHAR"), t2)

\* the body of ApplyScalarFun for one row
ApplyScalarFun(configs, context, func_name_val, func_args) ==
    LET func_name == func_name_val.v
        t1 == <<Ev("IsValidIdentifier", func_name)>>
        \* try { ... } catch: the result, or the exception with context added
        Executed(r) ==
            IF ~r.ok THEN Fail([r.err EXCEPT !.via = "apply"], t1 \o r.trace)
            ELSE Ret(r.value, t1 \o r.trace)
    IN IF func_name_val.null THEN Ret(NullValue, <<>>)
       ELSE IF ~IsValidIdentifier(func_name)
       THEN Fail(Err("InvalidIdentifier", func_name, "apply"), t1)
       ELSE Executed(ExecuteFunction(configs, context, func_name, func_args))

\* ApplyWithBindData as BindApplyWith fills it from the aliases of the
\* arguments after the name (indexes count the name as column 0)
RECURSIVE ScanAliases(_, _, _)
ScanAliases(aliases, i, bind_data) ==
    IF i > Len(aliases) THEN bind_data
    ELSE ScanAliases(aliases, i + 1,
            IF aliases[i] = s_args THEN [bind_data EXCEPT !.args_idx = i]
            ELSE IF aliases[i] = s_kwargs
            THEN [bind_data EXCEPT !.kwargs_idx = i, !.has_kwargs = TRUE]
            ELSE IF i = 1 THEN [bind_data EXCEPT !.args_idx = i]
            ELSE IF i = 2 THEN [bind_data EXCEPT !.kwargs_idx = i, !.has_kwargs = TRUE]
            ELSE bind_data)

\* variant: the columns taken by position only, aliases ignored
ApplyWithBindData_Positional(aliases) == [args_idx |-> 1, kwargs_idx |-> 2, has_kwargs |-> Len(aliases) >= 2]

ApplyWithBindData(aliases) ==
    ScanAliases(aliases, 1, [args_idx |-> 1, kwargs_idx |-> 2, has_kwargs |-> FALSE])

\* BindApplyWith: the return type apply_with() is bound with
BindApplyWith(name_foldable, func_name_val) ==
    LET func_name == func_name_val.v
        t1 == <<Ev("IsValidIdentifier", func_name)>>
        t2 == t1 \o <<Ev("GetCallableFunctionType", func_name)>>
    IN IF ~name_foldable THEN Ret(TypedNull("VARCHAR"), <<>>)
       ELSE IF func_name_val.null THEN Ret(TypedNull("VARCHAR"), <<>>)
       ELSE IF ~IsValidIdentifier(func_name) THEN Ret(TypedNull("VARCHAR"), t1)
       ELSE IF GetCallableFunctionType(func_name) = SCALAR_FUNCTION_ENTRY
       THEN IF GetEntry(SystemCatalog, SCALAR_FUNCTION_ENTRY, func_name) # NoEntry
            THEN Ret(TypedNull(ReturnTypeOf(func_name)), t2)
            ELSE Ret(TypedNull("VARCHAR"), t2)
       ELSE Ret(TypedNull("VARCHAR"), t2)

\* the body of ApplyWithScalarFun for one row; columns are the values of the
\* arguments after the name
ApplyWithScalarFun(configs, context, bind_data, func_name_val, columns) ==
    LET func_name == func_name_val.v
        t1 == <<Ev("IsValidIdentifier", func_name)>>
        args_list == IF bind_data.args_idx < Len(columns) + 1
                     THEN columns[bind_data.args_idx] ELSE NullValue
        func_args == IF ~args_list.null /\ args_list.t = "LIST"
                     THEN args_list.children ELSE <<>>
        kwargs_struct == IF bind_data.has_kwargs /\ bind_data.kwargs_idx < Len(columns) + 1
                         THEN columns[bind_data.kwargs_idx] ELSE NullValue
        \* try { ... } catch: the result, or the exception with context added
        Executed(r) ==
            IF ~r.ok THEN Fail([r.err EXCEPT !.via = "apply_with"], t1 \o r.trace)
            ELSE Ret(r.value, t1 \o r.trace)
    IN IF func_name_val.null THEN Ret(NullValue, <<>>)
       ELSE IF ~IsValidIdentifier(func_name)
       THEN Fail(Err("InvalidIdentifier", func_name, "apply_with"), t1)
       ELSE IF ~kwargs_struct.null /\ kwargs_struct.t = "STRUCT"
               /\ kwargs_struct.children # <<>>
       THEN Fail(Err("KwargsUnsupported", func_name, "apply_with"), t1)
       ELSE Executed(ExecuteFunction(configs, context, func_name, func_args))

(***************************************************************************)
(* Entry points: apply_table, apply_table_with                             *)
(***************************************************************************)
\* variant: a denied table call answers with the blocked value
BlockedByPolicy_BlockedValue(configs, context, func_name, trace) == Ret(GetBlockedValue(configs, context), trace \o <<Ev("GetBlockedValue", func_name)>>)

\* if (!ValidateFunctionCall(...)) throw BinderException("... is blocked by
\* security policy"): a table call has no row to put a blocked value in
BlockedByPolicy(configs, context, func_name, trace) ==
    Fail(Err("Blocked", func_name, "security policy"), trace)

RECURSIVE NamedParametersToSQL_AlwaysComma(_, _, _, _)
\* variant: a separator before every named parameter
NamedParametersToSQL_AlwaysComma(sql, named, first_named, n_inputs) == IF named = <<>> THEN sql ELSE NamedParametersToSQL_AlwaysComma(SubSeq(sql, 1, Len(sql) - 1) \o s_comma \o Head(named).key \o s_assign \o ValueToSQL(Head(named).value) \o <<41>>, Tail(named), FALSE, n_inputs)

RECURSIVE NamedParametersToSQL(_, _, _, _)
\* the loop over input.named_parameters of ApplyTableBindReplace: sql ends
\* with the closing parenthesis on entry and on exit
NamedParametersToSQL(sql, named, first_named, n_inputs) ==
    IF named = <<>> THEN sql
    ELSE LET kv == Head(named)
             opened == SubSeq(sql, 1, Len(sql) - 1)
             sep == IF ~first_named \/ n_inputs > 1 THEN opened \o s_comma ELSE opened
         IN NamedParametersToSQL(
                sep \o kv.key \o s_assign \o ValueToSQL(kv.value) \o <<41>>,
                Tail(named), FALSE, n_inputs)

\* variant: the table function is looked up before the policy is asked
ApplyTableBindReplace_ClassifyFirst(configs, context, inputs, named_parameters) == IF inputs = <<>> \/ inputs[1].null THEN Fail(Err("InvalidArgument", EmptyString, "function name"), <<>>) ELSE IF ~IsValidIdentifier(inputs[1].v) THEN Fail(Err("InvalidIdentifier", inputs[1].v, "apply_table"), <<Ev("IsValidIdentifier", inputs[1].v)>>) ELSE IF ~TableFunctionExists(inputs[1].v) THEN Fail(Err("NotFound", inputs[1].v, "does not exist"), <<Ev("IsValidIdentifier", inputs[1].v), Ev("TableFunctionExists", inputs[1].v)>>) ELSE IF ~ValidateFunctionCall(configs, context, inputs[1].v, Tail(inputs), <<>>).allowed THEN Fail(Err("Blocked", inputs[1].v, "security policy"), <<Ev("IsValidIdentifier", inputs[1].v), Ev("TableFunctionExists", inputs[1].v)>> \o ValidateFunctionCall(configs, context, inputs[1].v, Tail(inputs), <<>>).trace) ELSE ParseSubquery(NamedParametersToSQL(s_select_from \o inputs[1].v \o <<40>> \o ListItemsToSQL(Tail(inputs), 1) \o <<41>>, named_parameters, Len(inputs) <= 1, Len(inputs)), <<Ev("IsValidIdentifier", inputs[1].v), Ev("TableFunctionExists", inputs[1].v)>> \o ValidateFunctionCall(configs, context, inputs[1].v, Tail(inputs), <<>>).trace \o <<Ev("Synthesize", inputs[1].v)>>)

\* bind_replace for apply_table: generates SQL and replaces with subquery.
\* inputs[1] is the function name; named_parameters a sequence of [key, value].
ApplyTableBindReplace(configs, context, inputs, named_parameters) ==
    LET func_name == inputs[1].v
        t1 == <<Ev("IsValidIdentifier", func_name)>>
        args_for_validation == Tail(inputs)
        positional == <<40>> \o ListItemsToSQL(args_for_validation, 1) \o <<41>>
        \* the rest of the bind once ValidateFunctionCall has answered
        Checked(chk) ==
            LET t2 == t1 \o chk.trace \o <<Ev("TableFunctionExists", func_name)>>
                t3 == t2 \o <<Ev("GetCallableFunctionType", func_name)>>
            IN IF ~chk.ok THEN Fail(chk.err, t1 \o chk.trace)
               ELSE IF ~chk.allowed
               THEN BlockedByPolicy(configs, context, func_name, t1 \o chk.trace)
               ELSE IF ~TableFunctionExists(func_name)
               THEN IF GetCallableFunctionType(func_name) # INVALID
                    THEN Fail(Err("WrongCategory", func_name, "Use apply() instead"), t3)
                    ELSE Fail(Err("NotFound", func_name, "does not exist"), t3)
               ELSE ParseSubquery(
                        NamedParametersToSQL(s_select_from \o func_name \o positional,
                                             named_parameters, Len(inputs) <= 1, Len(inputs)),
                        t2 \o <<Ev("Synthesize", func_name)>>)
    IN IF inputs = <<>>
       THEN Fail(Err("InvalidArgument", EmptyString, "requires at least a function name"), <<>>)
       ELSE IF inputs[1].null
       THEN Fail(Err("InvalidArgument", EmptyString, "function name cannot be NULL"), <<>>)
       ELSE IF ~IsValidIdentifier(func_name)
       THEN Fail(Err("InvalidIdentifier", func_name, "apply_table"), t1)
       ELSE Checked(ValidateFunctionCall(configs, context, func_name,
                                         args_for_validation, <<>>))

\* input.named_parameters.find(key): the value, or absent
FindNamed(named_parameters, key) ==
    LET hits == { i \in 1..Len(named_parameters) : named_parameters[i].key = key }
    IN IF hits = {} THEN [found |-> FALSE, value |-> NullValue]
       ELSE [found |-> TRUE, value |-> named_parameters[CHOOSE i \in hits : TRUE].value]

RECURSIVE KwargsToSQL(_, _, _)
\* the loop over the kwargs struct of ApplyTableWithBindReplace
KwargsToSQL(children, i, first) ==
    IF i > Len(children) THEN <<>>
    ELSE (IF ~first THEN s_comma ELSE <<>>)
         \o children[i].key \o s_assign \o ValueToSQL(children[i].value)
         \o KwargsToSQL(children, i + 1, FALSE)

\* bind_replace for apply_table_with: generates SQL and replaces with subquery
ApplyTableWithBindReplace(configs, context, inputs, named_parameters) ==
    LET func_name == inputs[1].v
        t1 == <<Ev("IsValidIdentifier", func_name)>>
        args_it == FindNamed(named_parameters, s_args)
        args_list == IF args_it.found THEN args_it.value
                     ELSE IF Len(inputs) > 1 THEN inputs[2] ELSE NullValue
        has_list == ~args_list.null /\ args_list.t = "LIST"
        args_for_validation == IF has_list THEN args_list.children ELSE <<>>
        kwargs_it == FindNamed(named_parameters, s_kwargs)
        kwargs_struct == IF kwargs_it.found THEN kwargs_it.value
                         ELSE IF Len(inputs) > 2 THEN inputs[3] ELSE NullValue
        has_struct == ~kwargs_struct.null /\ kwargs_struct.t = "STRUCT"
        sql == s_select_from \o func_name \o <<40>>
               \o (IF has_list THEN ListItemsToSQL(args_list.children, 1) ELSE <<>>)
               \o (IF has_struct
                   THEN KwargsToSQL(kwargs_struct.children, 1,
                                    ~(has_list /\ args_list.children # <<>>))
                   ELSE <<>>)
               \o <<41>>
        \* the rest of the bind once ValidateFunctionCall has answered
        Checked(chk) ==
            LET t2 == t1 \o chk.trace \o <<Ev("TableFunctionExists", func_name)>>
                t3 == t2 \o <<Ev("GetCallableFunctionType", func_name)>>
            IN IF ~chk.ok THEN Fail(chk.err, t1 \o chk.trace)
               ELSE IF ~chk.allowed
               THEN BlockedByPolicy(configs, context, func_name, t1 \o chk.trace)
               ELSE IF ~TableFunctionExists(func_name)
               THEN IF GetCallableFunctionType(func_name) # INVALID
                    THEN Fail(Err("WrongCategory", func_name, "Use apply_with() instead"), t3)
                    ELSE Fail(Err("NotFound", func_name, "does not exist"), t3)
               ELSE ParseSubquery(sql, t2 \o <<Ev("Synthesize", func_name)>>)
    IN IF inputs = <<>>
       THEN Fail(Err("InvalidArgument", EmptyString, "requires at least a function name"), <<>>)
       ELSE IF inputs[1].null
       THEN Fail(Err("InvalidArgument", EmptyString, "function name cannot be NULL"), <<>>)
       ELSE IF ~IsValidIdentifier(func_name)
       THEN Fail(Err("InvalidIdentifier", func_name, "apply_table_with"), t1)
       ELSE Checked(ValidateFunctionCall(configs, context, func_name,
                                         args_for_validation, <<>>))

(***************************************************************************)
(* Security configuration functions: the body run for one row.             *)
(* Result: [config, ok, value, err], config the session's config after it. *)
(***************************************************************************)
Locked(config) ==
    [config |-> config, ok |-> FALSE, value |-> NullValue,
     err |-> Err("Locked", EmptyString, "security settings are locked")]
Done(config, value) == [config |-> config, ok |-> TRUE, value |-> value, err |-> NoError]

\* variant: the mode is stored before it is looked at
SetSecurityMode_WriteFirst(config, mode) == IF config.locked THEN Locked(config) ELSE IF mode # "none" /\ mode # "blacklist" /\ mode # "whitelist" /\ mode # "validator" THEN [config |-> [config EXCEPT !.mode = mode], ok |-> FALSE, value |-> NullValue, err |-> Err("InvalidArgument", EmptyString, "Invalid security mode")] ELSE Done([config EXCEPT !.mode = mode], Message("Security mode set to", EmptyString))

\* func_apply_set_security_mode(mode VARCHAR)
SetSecurityMode(config, mode) ==
    IF config.locked THEN Locked(config)
    ELSE IF mode # "none" /\ mode # "blacklist" /\ mode # "whitelist" /\ mode # "validator"
    THEN [config |-> config, ok |-> FALSE, value |-> NullValue,
          err |-> Err("InvalidArgument", EmptyString, "Invalid security mode")]
    ELSE Done([config EXCEPT !.mode = mode], Message("Security mode set to", EmptyString))

\* a variant that stores the names as given
ListNames_AsGiven(list_val) ==
    IF ~list_val.null /\ list_val.t = "LIST"
    THEN { list_val.children[i].v :
             i \in { k \in 1..Len(list_val.children) : ~list_val.children[k].null } }
    ELSE {}

\* the names a list setter stores: the lower-cased non-NULL children
ListNames(list_val) ==
    IF ~list_val.null /\ list_val.t = "LIST"
    THEN { Lower(list_val.children[i].v) :
             i \in { k \in 1..Len(list_val.children) : ~list_val.children[k].null } }
    ELSE {}

\* variant: the names are added to the set already there
SetBlacklist_Merge(config, list_val) == IF config.locked THEN Locked(config) ELSE Done([config EXCEPT !.blacklist = @ \cup ListNames(list_val)], Message("Blacklist set with", EmptyString))

\* func_apply_set_blacklist(list LIST)
SetBlacklist(config, list_val) ==
    IF config.locked THEN Locked(config)
    ELSE Done([config EXCEPT !.blacklist = ListNames(list_val)],
              Message("Blacklist set with", to_string(Cardinality(ListNames(list_val)))))

\* func_apply_set_whitelist(list LIST)
SetWhitelist(config, list_val) ==
    IF config.locked THEN Locked(config)
    ELSE Done([config EXCEPT !.whitelist = ListNames(list_val)],
              Message("Whitelist set with", to_string(Cardinality(ListNames(list_val)))))

\* func_apply_set_validator(func_name VARCHAR)
SetValidator(config, name_str) ==
    IF config.locked THEN Locked(config)
    ELSE Done([config EXCEPT !.validator_func = name_str],
              Message("Validator set to", name_str))

\* variant: the behavior stored without looking at it
SetOnBlock_Any(config, behavior) == IF config.locked THEN Locked(config) ELSE Done([config EXCEPT !.on_block = behavior], Message("On-block behavior set to", EmptyString))

\* func_apply_set_on_block(behavior VARCHAR)
SetOnBlock(config, behavior) ==
    IF config.locked THEN Locked(config)
    ELSE IF behavior # "error" /\ behavior # "null" /\ behavior # "default"
    THEN [config |-> config, ok |-> FALSE, value |-> NullValue,
          err |-> Err("InvalidArgument", EmptyString, "Invalid on_block behavior")]
    ELSE Done([config EXCEPT !.on_block = behavior],
              Message("On-block behavior set to", EmptyString))

\* a variant that writes without looking at locked
SetBlockDefault_Unlocked(config, value) ==
    Done([config EXCEPT !.block_default = value], Message("Block default value set", EmptyString))

\* func_apply_set_block_default(value ANY)
SetBlockDefault(config, value) ==
    IF config.locked THEN Locked(config)
    ELSE Done([config EXCEPT !.block_default = value],
              Message("Block default value set", EmptyString))

\* a variant that locks again without complaint
LockSecurity_Relock(config) ==
    Done([config EXCEPT !.locked = TRUE], Message("Security settings locked", EmptyString))

\* func_apply_lock_security()
LockSecurity(config) ==
    IF config.locked
    THEN [config |-> config, ok |-> FALSE, value |-> NullValue,
          err |-> Err("AlreadyLocked", EmptyString, "security settings are already locked")]
    ELSE Done([config EXCEPT !.locked = TRUE], Message("Security settings locked", EmptyString))

\* func_apply_get_security_config(): the fields the report shows
GetSecurityConfigReport(config) ==
    Done(config,
         [t |-> "VARCHAR", null |-> FALSE, v |-> EmptyString,
          mode |-> config.mode, on_block |-> config.on_block, locked |-> config.locked,
          validator |-> config.validator_func,
          blacklist |-> config.blacklist, whitelist |-> config.whitelist])

(***************************************************************************)
(* Inputs                                                                  *)
(***************************************************************************)
\* sessions (ClientContext objects)
Contexts == {"c1"}

ArgValues == { StrV(n_hi) }
ArgLists == UNION { [1..n -> ArgValues] : n \in 0..MaxArgs }

\* upper: a scalar; GetEnv: a scalar on the default blacklist, in another
\* letter case; range: a scalar and a table function; nosuch: not registered;
\* 1x: not an identifier
CallNames == { n_upper, n_GetEnv, n_range, n_nosuch, n_1x }
NameValues == { StrV(n) : n \in CallNames } \cup { TypedNull("VARCHAR") }

Column(alias, value) == [alias |-> alias, value |-> value]
KwargsSample == StructV(<< [key |-> n_k, value |-> StrV(n_hi)] >>)
\* the arguments after the name of a structured call, with their aliases
StructuredColumns ==
    { <<>> }
    \cup { << Column(EmptyString, ListV(a)) >> : a \in ArgLists }
    \cup { << Column(EmptyString, TypedNull("LIST")), Column(EmptyString, TypedNull("STRUCT")) >>,
           << Column(EmptyString, ListV(<<StrV(n_hi)>>)), Column(EmptyString, KwargsSample) >>,
           << Column(s_kwargs, KwargsSample), Column(s_args, ListV(<<StrV(n_hi)>>)) >> }

ModeInputs == Modes \cup {"Blacklist"}
OnBlockInputs == OnBlocks \cup {"ignore"}
BlacklistInputs ==
    { ListV(<<>>), ListV(<< StrV(n_Upper), TypedNull("VARCHAR") >>), TypedNull("LIST") }
WhitelistInputs == { ListV(<<>>), ListV(<< StrV(n_Upper) >>) }
ValidatorInputs ==
    { EmptyString, n_allow_all, n_deny_all, n_ret_null, n_boom, n_nosuch, n_arity1 }
BlockDefaultInputs == { IntV(<<52, 50>>) }

(***************************************************************************)
(* State machine                                                           *)
(***************************************************************************)
NoCall ==
    [ op |-> "none", context |-> "", name |-> NullValue, args |-> <<>>, named |-> <<>>,
      ok |-> TRUE, value |-> NullValue, err |-> NoError, trace |-> <<>> ]

Call(op, context, name, args, named, r) ==
    [ op |-> op, context |-> context, name |-> name, args |-> args, named |-> named,
      ok |-> r.ok, value |-> r.value, err |-> r.err, trace |-> r.trace ]

\* the map after a call whose trace shows whether GetSecurityConfig ran
Touched(configs, context, trace) ==
    IF \E i \in 1..Len(trace) : trace[i].e = "GetSecurityConfig"
    THEN GetSecurityConfig(configs, context)
    ELSE configs

\* the host is between calls
Idle == last.op = "none"

\* variant: one config for all sessions
Configure_Shared(op, context, arg, r) == security_configs' = [c \in DOMAIN GetSecurityConfig(security_configs, context) |-> r.config] /\ last' = [NoCall EXCEPT !.op = op, !.context = context, !.args = <<arg>>, !.ok = r.ok, !.value = r.value, !.err = r.err, !.trace = <<Ev("GetSecurityConfig", EmptyString)>>] /\ UNCHANGED security_config_mutex

\* a configuration function: look the config up (creating it), run the body
Configure(op, context, arg, r) ==
    /\ security_configs' =
         [GetSecurityConfig(security_configs, context) EXCEPT ![context] = r.config]
    /\ last' = [ op |-> op, context |-> context, name |-> NullValue, args |-> <<arg>>,
                 named |-> <<>>, ok |-> r.ok, value |-> r.value, err |-> r.err,
                 trace |-> <<Ev("GetSecurityConfig", EmptyString)>> ]
    /\ UNCHANGED security_config_mutex

Init ==
    /\ security_configs = <<>>
    /\ last = NoCall
    /\ security_config_mutex = ""

\* the row's result is stored (result.SetValue) or the exception leaves the
\* handler: the host has the answer
Return ==
    /\ ~Idle
    /\ last' = NoCall
    /\ UNCHANGED <<security_configs, security_config_mutex>>

\* an entry point answered with r: GetSecurityConfig, if it ran, has created
\* the session's config
Respond(op, context, name, args, named, r) ==
    /\ security_configs' = Touched(security_configs, context, r.trace)
    /\ last' = Call(op, context, name, args, named, r)
    /\ UNCHANGED security_config_mutex

function_exists(context, name) ==
    /\ Idle
    /\ Respond("function_exists", context, StrV(name), <<>>, <<>>, FunctionExists(name))

apply_bind(context, name_foldable, func_name_val, arg_count) ==
    /\ Idle
    /\ Respond("apply_bind", context, func_name_val, [i \in 1..arg_count |-> NullValue], <<>>,
               BindApply(name_foldable, func_name_val, arg_count))

apply(context, func_name_val, func_args) ==
    /\ Idle
    /\ Respond("apply", context, func_name_val, func_args, <<>>,
               ApplyScalarFun(security_configs, context, func_name_val, func_args))

apply_with_bind(context, name_foldable, func_name_val) ==
    /\ Idle
    /\ Respond("apply_with_bind", context, func_name_val, <<>>, <<>>,
               BindApplyWith(name_foldable, func_name_val))

apply_with(context, func_name_val, columns) ==
    /\ Idle
    /\ LET bind_data == ApplyWithBindData([i \in 1..Len(columns) |-> columns[i].alias])
           values == [i \in 1..Len(columns) |-> columns[i].value]
       IN Respond("apply_with", context, func_name_val, values, <<>>,
                  ApplyWithScalarFun(security_configs, context, bind_data, func_name_val, values))

apply_table(context, func_name_val, func_args) ==
    /\ Idle
    /\ Respond("apply_table", context, func_name_val, func_args, <<>>,
               ApplyTableBindReplace(security_configs, context,
                                     <<func_name_val>> \o func_args, <<>>))

apply_table_with(context, func_name_val, columns) ==
    /\ Idle
    /\ LET positional == SelectSeq(columns, LAMBDA c : c.alias = EmptyString)
           aliased == SelectSeq(columns, LAMBDA c : c.alias # EmptyString)
           inputs == <<func_name_val>> \o [i \in 1..Len(positional) |-> positional[i].value]
           named == [i \in 1..Len(aliased) |-> [key |-> aliased[i].alias, value |-> aliased[i].value]]
       IN Respond("apply_table_with", context, func_name_val, Tail(inputs), named,
                  ApplyTableWithBindReplace(security_configs, context, inputs, named))

func_apply_set_security_mode(context, mode_str) ==
    /\ Idle
    /\ Configure("set_security_mode", context, mode_str,
                 SetSecurityMode(Config(security_configs, context), mode_str))

func_apply_set_blacklist(context, list_val) ==
    /\ Idle
    /\ Configure("set_blacklist", context, list_val,
                 SetBlacklist(Config(security_configs, context), list_val))

func_apply_set_whitelist(context, list_val) ==
    /\ Idle
    /\ Configure("set_whitelist", context, list_val,
                 SetWhitelist(Config(security_configs, context), list_val))

func_apply_set_validator(context, name_str) ==
    /\ Idle
    /\ Configure("set_validator", context, name_str,
                 SetValidator(Config(security_configs, context), name_str))

func_apply_set_on_block(context, behavior_str) ==
    /\ Idle
    /\ Configure("set_on_block", context, behavior_str,
                 SetOnBlock(Config(security_configs, context), behavior_str))

func_apply_set_block_default(context, value) ==
    /\ Idle
    /\ Configure("set_block_default", context, value,
                 SetBlockDefault(Config(security_configs, context), value))

func_apply_lock_security(context) ==
    /\ Idle
    /\ Configure("lock_security", context, NullValue,
                 LockSecurity(Config(security_configs, context)))

func_apply_get_security_config(context) ==
    /\ Idle
    /\ Configure("get_security_config", context, NullValue,
                 GetSecurityConfigReport(Config(security_configs, context)))

Next ==
    \/ \E context \in Contexts :
        \/ \E name \in CallNames \cup {EmptyString} : function_exists(context, name)
        \/ \E f \in BOOLEAN, n \in NameValues, k \in 0..MaxArgs : apply_bind(context, f, n, k)
        \/ \E n \in NameValues, a \in ArgLists : apply(context, n, a)
        \/ \E f \in BOOLEAN, n \in NameValues : apply_with_bind(context, f, n)
        \/ \E n \in NameValues, c \in StructuredColumns : apply_with(context, n, c)
        \/ \E n \in NameValues, a \in ArgLists : apply_table(context, n, a)
        \/ \E n \in NameValues, c \in StructuredColumns : apply_table_with(context, n, c)
        \/ \E m \in ModeInputs : func_apply_set_security_mode(context, m)
        \/ \E l \in BlacklistInputs : func_apply_set_blacklist(context, l)
        \/ \E l \in WhitelistInputs : func_apply_set_whitelist(context, l)
        \/ \E v \in ValidatorInputs : func_apply_set_validator(context, v)
        \/ \E b \in OnBlockInputs : func_apply_set_on_block(context, b)
        \/ \E d \in BlockDefaultInputs : func_apply_set_block_default(context, d)
        \/ func_apply_lock_security(context)
        \/ func_apply_get_security_config(context)
    \/ Return

Spec == Init /\ [][Next]_vars

(***************************************************************************)
(* Vocabulary of the properties                                            *)
(***************************************************************************)
\* the entry points that run a callable or a table function by name
Gated == {"apply", "apply_with", "apply_table", "apply_table_with"}
SetterOps ==
    {"set_security_mode", "set_blacklist", "set_whitelist", "set_validator",
     "set_on_block", "set_block_default"}

\* the config of the session of the call being answered
InForce == Config(security_configs, last.context)

Positions(trace, e) == { i \in 1..Len(trace) : trace[i].e = e }
EventCount(trace, e) == Cardinality(Positions(trace, e))

\* position i of the trace lies inside the validator hop
InHop(trace, i) ==
    /\ \E a \in 1..(i - 1) : trace[a].e = "CallValidator"
    /\ \E b \in (i + 1)..Len(trace) : trace[b].e = "EndValidator"

\* catalog resolution, binding and evaluation
ResolutionEvents ==
    {"CheckFunctionExists", "GetCallableFunctionType", "TableFunctionExists", "Bind", "Evaluate"}

\* the call resolved (or went on to bind, evaluate) a name outside the hop
Resolved == \E i \in 1..Len(last.trace) :
                last.trace[i].e \in ResolutionEvents /\ ~InHop(last.trace, i)

\* the call was answered as a denied one
Denied ==
    \/ ~last.ok /\ last.err.type = "Blocked"
    \/ EventCount(last.trace, "GetBlockedValue") > 0

\* a gated call that got as far as the policy check
Checked == last.op \in Gated /\ EventCount(last.trace, "ValidateFunctionCall") > 0

\* case folding, spelled out on the character codes
Folded(s) == [i \in 1..Len(s) |-> IF s[i] >= 65 /\ s[i] <= 90 THEN s[i] + 32 ELSE s[i]]
FoldedNames(list_val) ==
    IF list_val.null THEN {}
    ELSE { Folded(list_val.children[i].v) :
             i \in { k \in 1..Len(list_val.children) : ~list_val.children[k].null } }

\* what the sample validators answer, and how the failing ones fail
AnswersFalseOrNull == {n_deny_all, n_ret_null}
FailingValidators == {n_nosuch, n_arity1, n_boom}
Underlying(validator) ==
    IF validator = n_nosuch THEN "NotFound"
    ELSE IF validator = n_arity1 THEN "BindFailure"
    ELSE "EvalFailure"

\* the policy in force refuses the requested name
Refused ==
    LET n == Folded(last.name.v) IN
    \/ InForce.mode = "blacklist" /\ n \in InForce.blacklist
    \/ InForce.mode = "whitelist" /\ n \notin InForce.whitelist
    \/ InForce.mode = "validator" /\ InForce.validator_func \in AnswersFalseOrNull

(***************************************************************************)
(* Properties                                                              *)
(***************************************************************************)
\* C1: once lock_security has succeeded in a session, no later entry-point
\* call (setter, lock, report, apply*, function_exists) changes any field of
\* that session's config: mode, blacklist, whitelist, validator_func,
\* on_block, block_default and locked keep the values they had at the lock.
C1_LockedConfigNeverChanges ==
    [][\A c \in DOMAIN security_configs :
          security_configs[c].locked =>
              /\ c \in DOMAIN security_configs'
              /\ security_configs'[c] = security_configs[c]]_vars

\* a setter has been refused in a session locked with a non-default policy
C1_Witness ==
    /\ last.op = "set_block_default"
    /\ ~last.ok
    /\ InForce.locked
    /\ InForce.mode = "whitelist"
    /\ InForce.block_default = NullValue

\* C2: lock_security on an unlocked session succeeds and sets locked; on a
\* locked session each of the six setters fails with Locked whatever its
\* argument and lock_security fails with AlreadyLocked; locked never goes
\* back from true to false.
C2_LockIsFinal ==
    [][\A c \in Contexts :
          LET before == Config(security_configs, c)
              after == Config(security_configs', c)
          IN /\ before.locked => after.locked
             /\ (Idle /\ last'.context = c) =>
                   /\ (last'.op = "lock_security" /\ ~before.locked) =>
                          (last'.ok /\ after.locked)
                   /\ (last'.op \in SetterOps /\ before.locked) =>
                          (~last'.ok /\ last'.err.type = "Locked")
                   /\ (last'.op = "lock_security" /\ before.locked) =>
                          (~last'.ok /\ last'.err.type = "AlreadyLocked")]_vars

\* a second lock_security has been refused
C2_Witness ==
    /\ last.op = "lock_security"
    /\ ~last.ok
    /\ last.err.type = "AlreadyLocked"
    /\ InForce.locked

\* C3: in every entry-point call, each catalog resolution, binding or
\* evaluation outside the validator hop comes after a ValidateFunctionCall
\* for the requested name.
C3_ValidateBeforeResolution ==
    \A i \in 1..Len(last.trace) :
        (last.trace[i].e \in ResolutionEvents /\ ~InHop(last.trace, i)) =>
            \E j \in 1..(i - 1) :
                /\ last.trace[j].e = "ValidateFunctionCall"
                /\ last.trace[j].n = last.name.v

\* C4: in blacklist mode a checked call is allowed exactly when the
\* case-folded name is not in the blacklist, and denied exactly when it is;
\* the blacklist set_blacklist installs holds the case-folded names.
C4_BlacklistDecision ==
    /\ (Checked /\ InForce.mode = "blacklist") =>
          /\ Resolved <=> Folded(last.name.v) \notin InForce.blacklist
          /\ Denied <=> Folded(last.name.v) \in InForce.blacklist
    /\ (last.op = "set_blacklist" /\ last.ok) =>
          InForce.blacklist = FoldedNames(last.args[1])

\* GetEnv, a letter-case variant of a pre-seeded name, has been blocked
C4_Witness ==
    /\ last.op = "apply"
    /\ last.name = StrV(n_GetEnv)
    /\ InForce.mode = "blacklist"
    /\ n_getenv \in InForce.blacklist
    /\ ~last.ok
    /\ last.err.type = "Blocked"

\* C5: in whitelist mode a checked call is allowed exactly when the
\* case-folded name is in the whitelist, and denied otherwise (so the
\* initial empty whitelist denies every name); the whitelist set_whitelist
\* installs holds the case-folded names.
C5_WhitelistDecision ==
    /\ (Checked /\ InForce.mode = "whitelist") =>
          /\ Resolved <=> Folded(last.name.v) \in InForce.whitelist
          /\ Denied <=> Folded(last.name.v) \notin InForce.whitelist
    /\ (last.op = "set_whitelist" /\ last.ok) =>
          InForce.whitelist = FoldedNames(last.args[1])

\* upper, installed as Upper, has been allowed and run
C5_Witness ==
    /\ last.op = "apply"
    /\ last.name = StrV(n_upper)
    /\ InForce.mode = "whitelist"
    /\ InForce.whitelist = {n_upper}
    /\ last.ok
    /\ last.value = StrV(Upper(n_hi))

\* C6: a call through apply or apply_with that the policy refuses fails
\* with Blocked naming the function and the mode when on_block = error,
\* returns NULL when on_block = null, and returns the stored block_default
\* when on_block = default; in the last two cases the requested callable is
\* neither resolved nor executed.
C6_DeniedOutcome ==
    (last.op \in {"apply", "apply_with"} /\ Checked /\ Refused) =>
        IF InForce.on_block = "error"
        THEN /\ ~last.ok
             /\ last.err.type = "Blocked"
             /\ last.err.name = last.name.v
             /\ last.err.detail = InForce.mode
        ELSE /\ last.ok
             /\ last.value = (IF InForce.on_block = "default"
                              THEN InForce.block_default ELSE NullValue)
             /\ ~Resolved

\* a refused call has been answered with the stored default
C6_Witness ==
    /\ last.op = "apply_with"
    /\ Checked
    /\ Refused
    /\ InForce.on_block = "default"
    /\ InForce.block_default # NullValue
    /\ last.value = InForce.block_default

\* C7: in validator mode with a validator set that answers, the call is
\* allowed exactly when the validator returned true and denied when it
\* returned false or NULL, whatever the blacklist and whitelist hold.
C7_ValidatorDecides ==
    (/\ Checked
     /\ InForce.mode = "validator"
     /\ InForce.validator_func # EmptyString
     /\ InForce.validator_func \notin FailingValidators) =>
        /\ Resolved <=> InForce.validator_func \notin AnswersFalseOrNull
        /\ Denied <=> InForce.validator_func \in AnswersFalseOrNull

\* a validator answering NULL has blocked a whitelisted, non-blacklisted name
C7_Witness ==
    /\ last.op = "apply"
    /\ last.name = StrV(n_upper)
    /\ InForce.mode = "validator"
    /\ InForce.validator_func = n_ret_null
    /\ n_upper \in InForce.whitelist
    /\ n_upper \notin InForce.blacklist
    /\ Denied

\* C8: in validator mode, when the validator is not found, does not take
\* the arguments or fails in its body, the gated call fails with an error
\* naming the validator and carrying the underlying failure, for every
\* on_block: it is not allowed, not denied and not answered with the
\* blocked value.
C8_ValidatorFailureSurfaces ==
    (/\ Checked
     /\ InForce.mode = "validator"
     /\ InForce.validator_func \in FailingValidators) =>
        /\ ~last.ok
        /\ last.err.type = "ValidatorFailed"
        /\ last.err.name = InForce.validator_func
        /\ last.err.detail = Underlying(InForce.validator_func)
        /\ ~Resolved
        /\ ~Denied

\* a failing validator body has failed the call although on_block = null
C8_Witness ==
    /\ last.op = "apply"
    /\ InForce.mode = "validator"
    /\ InForce.validator_func = n_boom
    /\ InForce.on_block = "null"
    /\ ~last.ok
    /\ last.err.type = "ValidatorFailed"
    /\ last.err.detail = "EvalFailure"

\* C9: in validator mode with an empty validator name, a checked call
\* fails with Misconfigured for every name and on_block, with nothing
\* resolved or invoked (the validator hop included), never allowed and
\* never answered with the blocked value.
C9_NoValidatorIsMisconfigured ==
    (/\ Checked
     /\ InForce.mode = "validator"
     /\ InForce.validator_func = EmptyString) =>
        /\ ~last.ok
        /\ last.err.type = "Misconfigured"
        /\ \A i \in 1..Len(last.trace) : last.trace[i].e \notin ResolutionEvents
        /\ EventCount(last.trace, "CallValidator") = 0
        /\ ~Denied

\* a table call has failed with Misconfigured although on_block = default
C9_Witness ==
    /\ last.op = "apply_table"
    /\ InForce.mode = "validator"
    /\ InForce.validator_func = EmptyString
    /\ InForce.on_block = "default"
    /\ ~last.ok
    /\ last.err.type = "Misconfigured"

\* a gated call whose name and arguments let it reach the policy check
ReachesCheck ==
    /\ last.op \in Gated
    /\ ~last.name.null
    /\ IsValidIdentifier(last.name.v)
    /\ last.err.type \notin {"KwargsUnsupported", "InvalidArgument"}

\* C10: in validator mode with a validator set, every gated call that
\* reaches the policy check runs ValidateFunctionCall once, for the
\* requested name, and the validator once, after it; nothing inside the
\* hop runs ValidateFunctionCall, the hop resolves the validator only, and
\* what is resolved outside the hop is the requested name, after the hop.
C10_OneUncheckedHop ==
    (/\ ReachesCheck
     /\ InForce.mode = "validator"
     /\ InForce.validator_func # EmptyString) =>
        LET t == last.trace
            checks == Positions(t, "ValidateFunctionCall")
            begins == Positions(t, "CallValidator")
            ends == Positions(t, "EndValidator")
        IN /\ Cardinality(checks) = 1
           /\ Cardinality(begins) = 1
           /\ Cardinality(ends) = 1
           /\ \A c \in checks : t[c].n = last.name.v /\ \A b \in begins : c < b
           /\ \A b \in begins : t[b].n = InForce.validator_func
           /\ \A i \in 1..Len(t) :
                 t[i].e \in ResolutionEvents =>
                     IF InHop(t, i) THEN t[i].n = InForce.validator_func
                     ELSE t[i].n = last.name.v /\ \A e \in ends : e < i

\* an allowing validator has been asked once and the call has then run
C10_Witness ==
    /\ last.op = "apply"
    /\ last.name = StrV(n_upper)
    /\ InForce.mode = "validator"
    /\ InForce.validator_func = n_allow_all
    /\ EventCount(last.trace, "CallValidator") = 1
    /\ last.ok
    /\ last.value = StrV(Upper(n_hi))

\* the text HI
n_HI == <<72, 73>>

\* C11: in mode none every checked call is allowed, whatever the blacklist,
\* the whitelist and the validator name hold: it is never denied and never
\* fails in the policy check, it goes on to resolve the name, and
\* apply('upper', 'hi') returns 'HI'.
C11_ModeNoneAllowsAll ==
    /\ (Checked /\ InForce.mode = "none") =>
          /\ ~Denied
          /\ last.err.type \notin {"Misconfigured", "ValidatorFailed"}
          /\ EventCount(last.trace, "CallValidator") = 0
          /\ Resolved
    /\ (/\ last.op = "apply"
        /\ InForce.mode = "none"
        /\ last.name = StrV(n_upper)
        /\ last.args = <<StrV(n_hi)>>) =>
          (last.ok /\ last.value = StrV(n_HI))

\* GetEnv, pre-seeded on the blacklist, has been resolved and run in mode
\* none although a failing validator name is stored
C11_Witness ==
    /\ last.op = "apply"
    /\ last.name = StrV(n_GetEnv)
    /\ InForce.mode = "none"
    /\ n_getenv \in InForce.blacklist
    /\ InForce.validator_func = n_boom
    /\ last.ok
    /\ EventCount(last.trace, "Evaluate") = 1

\* the names registered in some lookup scope, case-folded
RegisteredNames == { Folded(e.name) : e \in SystemCatalog \cup DefaultCatalog }

\* a name that satisfies the identifier grammar and is registered nowhere
UnregisteredIdentifier(name) ==
    IsValidIdentifier(name) /\ Folded(name) \notin RegisteredNames

\* the validators of the sample that answer true
AnswersTrue == {n_allow_all}

\* the policy in force lets the requested name through
PolicyAllows ==
    LET n == Folded(last.name.v) IN
    \/ InForce.mode = "none"
    \/ InForce.mode = "blacklist" /\ n \notin InForce.blacklist
    \/ InForce.mode = "whitelist" /\ n \in InForce.whitelist
    \/ InForce.mode = "validator" /\ InForce.validator_func \in AnswersTrue

\* function_exists answers false for an unregistered identifier
ExistsSaysFalse ==
    (last.op = "function_exists" /\ UnregisteredIdentifier(last.name.v)) =>
        (last.ok /\ last.value = BoolV(FALSE))

\* C12 as stated: for an unregistered identifier function_exists returns
\* false and apply / apply_with fails with NotFound, whatever the policy.
C12_UnregisteredIsNotFound ==
    /\ ExistsSaysFalse
    /\ (/\ last.op \in {"apply", "apply_with"}
        /\ Checked
        /\ UnregisteredIdentifier(last.name.v)) =>
          (~last.ok /\ last.err.type = "NotFound")

\* C12 amended: for an unregistered identifier function_exists returns
\* false, and apply / apply_with fails with NotFound naming the function
\* when the policy lets the call through; nothing is bound or evaluated
\* outside the validator hop.
C12_UnregisteredIsNotFoundWhenAllowed ==
    /\ ExistsSaysFalse
    /\ (/\ last.op \in {"apply", "apply_with"}
        /\ Checked
        /\ PolicyAllows
        /\ UnregisteredIdentifier(last.name.v)) =>
          /\ ~last.ok
          /\ last.err.type = "NotFound"
          /\ last.err.name = last.name.v
          /\ last.err.detail = "does not exist"
          /\ \A i \in 1..Len(last.trace) :
                last.trace[i].e \in {"Bind", "Evaluate"} => InHop(last.trace, i)

\* an allowing validator has let an unregistered name through to NotFound
C12_Witness ==
    /\ last.op = "apply_with"
    /\ last.name = StrV(n_nosuch)
    /\ InForce.mode = "validator"
    /\ InForce.validator_func = n_allow_all
    /\ ~last.ok
    /\ last.err.type = "NotFound"

\* the categories a name is registered under, read off the catalogs
RegisteredAs(name, types) ==
    \E e \in SystemCatalog \cup DefaultCatalog :
        Folded(e.name) = Folded(name) /\ e.type \in types

TableOps == {"apply_table", "apply_table_with"}

\* C13: apply_table / apply_table_with on a name the policy lets through
\* that is no table function fails, with WrongCategory pointing at apply()
\* resp. apply_with() when the name is a scalar function or macro and with
\* NotFound otherwise; no SQL text is synthesized or parsed.
C13_TableWrongCategory ==
    (/\ last.op \in TableOps
     /\ Checked
     /\ PolicyAllows
     /\ ~RegisteredAs(last.name.v, {TABLE_FUNCTION_ENTRY})) =>
        /\ ~last.ok
        /\ last.err.name = last.name.v
        /\ EventCount(last.trace, "Synthesize") = 0
        /\ EventCount(last.trace, "ParseQuery") = 0
        /\ IF RegisteredAs(last.name.v, {SCALAR_FUNCTION_ENTRY, MACRO_ENTRY})
           THEN /\ last.err.type = "WrongCategory"
                /\ last.err.detail = (IF last.op = "apply_table"
                                      THEN "Use apply() instead"
                                      ELSE "Use apply_with() instead")
           ELSE last.err.type = "NotFound"

\* apply_table_with('upper', ...) has been refused as a scalar function
C13_Witness ==
    /\ last.op = "apply_table_with"
    /\ last.name = StrV(n_upper)
    /\ PolicyAllows
    /\ ~last.ok
    /\ last.err.type = "WrongCategory"
    /\ last.err.detail = "Use apply_with() instead"

\* C14: every name that reaches a catalog lookup, a bind, an evaluation or
\* the synthesized SQL text satisfies the identifier grammar, and
\* IsValidIdentifier has been run on that name earlier in the same call;
\* the name of the validator in the hop is included.
C14_GrammarBeforeCatalog ==
    \A i \in 1..Len(last.trace) :
        last.trace[i].e \in ResolutionEvents \cup {"Synthesize"} =>
            /\ IsValidIdentifier(last.trace[i].n)
            /\ \E j \in 1..(i - 1) :
                  /\ last.trace[j].e = "IsValidIdentifier"
                  /\ last.trace[j].n = last.trace[i].n

(***************************************************************************)
(* The literal grammar of the host parser (external), as far as the codec  *)
(* writes it: NULL, true/false, digits, 'text' with '' for a quote,        *)
(* 'text'::TYPE, [item, ...] and {'key': item, ...}; blanks between tokens *)
(* are skipped.                                                            *)
(***************************************************************************)
StartsWith(q, i, s) == i + Len(s) - 1 <= Len(q) /\ SubSeq(q, i, i + Len(s) - 1) = s

RECURSIVE SkipSpaces(_, _)
SkipSpaces(q, i) == IF i <= Len(q) /\ q[i] = 32 THEN SkipSpaces(q, i + 1) ELSE i

RECURSIVE ScanRun(_, _, _)
\* the first position from i on whose character is not one of chars
ScanRun(q, i, chars) == IF i <= Len(q) /\ q[i] \in chars THEN ScanRun(q, i + 1, chars) ELSE i

NoParse == [ok |-> FALSE, value |-> NullValue, next |-> 0]
Parsed(value, next) == [ok |-> TRUE, value |-> value, next |-> next]

RECURSIVE ScanQuoted(_, _, _)
\* the text after an opening quote up to the closing one
ScanQuoted(q, j, acc) ==
    IF j > Len(q) THEN NoParse
    ELSE IF q[j] # 39 THEN ScanQuoted(q, j + 1, Append(acc, q[j]))
    ELSE IF j + 1 <= Len(q) /\ q[j + 1] = 39 THEN ScanQuoted(q, j + 2, Append(acc, 39))
    ELSE Parsed(acc, j + 1)

\* the type a type name of the sample denotes
TypeOfText(txt) ==
    IF txt = s_BLOB THEN "BLOB"
    ELSE IF txt = s_DATE THEN "DATE"
    ELSE IF txt = s_TIME THEN "TIME"
    ELSE IF txt = s_TIMESTAMP THEN "TIMESTAMP"
    ELSE IF txt = s_INTERVAL THEN "INTERVAL"
    ELSE IF txt = s_UUID THEN "UUID"
    ELSE "UNKNOWN"

RECURSIVE ParseValue(_, _)
RECURSIVE ParseListItems(_, _, _)
RECURSIVE ParseStructItems(_, _, _)

\* the items of a list from position i0 on, acc the items read so far
ParseListItems(q, i0, acc) ==
    LET i == SkipSpaces(q, i0)
        Item(r) ==
            LET k == SkipSpaces(q, r.next)
            IN IF ~r.ok \/ k > Len(q) THEN NoParse
               ELSE IF q[k] = 44 THEN ParseListItems(q, k + 1, Append(acc, r.value))
               ELSE IF q[k] = 93 THEN Parsed(ListV(Append(acc, r.value)), k + 1)
               ELSE NoParse
    IN IF i > Len(q) THEN NoParse
       ELSE IF q[i] = 93 THEN Parsed(ListV(acc), i + 1)
       ELSE Item(ParseValue(q, i))

\* the fields of a struct from position i0 on, acc the fields read so far
ParseStructItems(q, i0, acc) ==
    LET i == SkipSpaces(q, i0)
        Field(key, r) ==
            LET k == SkipSpaces(q, r.next)
                field == [key |-> key, value |-> r.value]
            IN IF ~r.ok \/ k > Len(q) THEN NoParse
               ELSE IF q[k] = 44 THEN ParseStructItems(q, k + 1, Append(acc, field))
               ELSE IF q[k] = 125 THEN Parsed(StructV(Append(acc, field)), k + 1)
               ELSE NoParse
        Key(s) ==
            LET c == SkipSpaces(q, s.next)
            IN IF ~s.ok \/ c > Len(q) \/ q[c] # 58 THEN NoParse
               ELSE Field(s.value, ParseValue(q, c + 1))
    IN IF i > Len(q) THEN NoParse
       ELSE IF q[i] = 125 THEN Parsed(StructV(acc), i + 1)
       ELSE IF q[i] # 39 THEN NoParse
       ELSE Key(ScanQuoted(q, i + 1, <<>>))

\* one literal from position i0 on: [ok, value, next]
ParseValue(q, i0) ==
    LET i == SkipSpaces(q, i0)
        Text(s) ==
            IF ~s.ok THEN NoParse
            ELSE IF StartsWith(q, s.next, <<58, 58>>)
            THEN LET e == ScanRun(q, s.next + 2, 65..90)
                 IN Parsed([t |-> TypeOfText(SubSeq(q, s.next + 2, e - 1)),
                            null |-> FALSE, v |-> s.value], e)
            ELSE Parsed(StrV(s.value), s.next)
        Number(e) == Parsed(IntV(SubSeq(q, i, e - 1)), e)
    IN IF i > Len(q) THEN NoParse
       ELSE IF StartsWith(q, i, s_NULL) THEN Parsed(NullValue, i + Len(s_NULL))
       ELSE IF StartsWith(q, i, s_true) THEN Parsed(BoolV(TRUE), i + Len(s_true))
       ELSE IF StartsWith(q, i, s_false) THEN Parsed(BoolV(FALSE), i + Len(s_false))
       ELSE IF q[i] \in 48..57 THEN Number(ScanRun(q, i, 48..57))
       ELSE IF q[i] = 39 THEN Text(ScanQuoted(q, i + 1, <<>>))
       ELSE IF q[i] = 91 THEN ParseListItems(q, i + 1, <<>>)
       ELSE IF q[i] = 123 THEN ParseStructItems(q, i + 1, <<>>)
       ELSE NoParse

\* the whole text read as one literal: [ok, value]
ParseLiteral(q) ==
    LET Whole(r) ==
            IF r.ok /\ SkipSpaces(q, r.next) = Len(q) + 1
            THEN [ok |-> TRUE, value |-> r.value]
            ELSE [ok |-> FALSE, value |-> NullValue]
    IN Whole(ParseValue(q, 1))

(***************************************************************************)
(* The codec on its own: a value is encoded by ValueToSQL, then the text   *)
(* is read back by the host parser.                                        *)
(***************************************************************************)
\* texts with and without single quotes
SampleTexts == { <<>>, <<97>>, <<39>>, <<97, 39, 98>>, <<39, 39>>, n_hi }
\* what Value::ToString gives for the types written between quotes as is
PlainText == <<49, 50, 51>>
\* field names, one of them holding a single quote
SampleKeys == { n_k, <<97, 39, 98>> }

Atoms ==
    { NullValue, TypedNull("VARCHAR"), BoolV(TRUE), BoolV(FALSE), IntV(<<52, 50>>),
      [t |-> "TINYINT", null |-> FALSE, v |-> <<55>>] }
    \cup { StrV(txt) : txt \in SampleTexts }
    \cup { [t |-> ty, null |-> FALSE, v |-> PlainText] :
             ty \in {"BLOB", "DATE", "TIME", "TIMESTAMP", "INTERVAL"} }
    \cup { [t |-> "UUID", null |-> FALSE, v |-> txt] : txt \in {PlainText, <<97, 39, 98>>} }

FlatLists == { ListV(<<>>) } \cup { ListV(<<a>>) : a \in Atoms }
             \cup { ListV(<<a, b>>) : a, b \in { StrV(<<39>>), IntV(<<52, 50>>), NullValue } }
FlatStructs == { StructV(<< [key |-> k, value |-> a] >>) : k \in SampleKeys, a \in Atoms }

CodecValues ==
    Atoms \cup FlatLists \cup FlatStructs
    \cup { ListV(<<l>>) : l \in FlatLists }
    \cup { ListV(<<st, st>>) : st \in FlatStructs }
    \cup { StructV(<< [key |-> n_k, value |-> l], [key |-> n_hi, value |-> st] >>) :
             l \in FlatLists, st \in { StructV(<< [key |-> n_k, value |-> StrV(<<39>>)] >>) } }

\* ValueToSQL(val) has returned its text
Encode(val) ==
    /\ Idle
    /\ last' = [NoCall EXCEPT !.op = "ValueToSQL", !.args = <<val>>,
                              !.value = StrV(ValueToSQL(val))]
    /\ UNCHANGED <<security_configs, security_config_mutex>>

\* the host parser has read the text
Decode ==
    /\ last.op = "ValueToSQL"
    /\ LET Read(r) == last' = [last EXCEPT !.op = "ParseLiteral", !.ok = r.ok,
                                           !.value = r.value]
       IN Read(ParseLiteral(last.value.v))
    /\ UNCHANGED <<security_configs, security_config_mutex>>

Delivered ==
    /\ last.op = "ParseLiteral"
    /\ last' = NoCall
    /\ UNCHANGED <<security_configs, security_config_mutex>>

NextCodec ==
    \/ \E val \in CodecValues : Encode(val)
    \/ Decode
    \/ Delivered

SpecCodec == Init /\ [][NextCodec]_vars

RECURSIVE SameUpToWidth(_)
\* a value with the differences a literal cannot carry removed: the type of
\* a NULL and the width of a number
SameUpToWidth(val) ==
    IF val.null THEN NullValue
    ELSE IF val.t = "LIST"
    THEN ListV([i \in 1..Len(val.children) |-> SameUpToWidth(val.children[i])])
    ELSE IF val.t = "STRUCT"
    THEN StructV([i \in 1..Len(val.children) |->
                    [key |-> val.children[i].key,
                     value |-> SameUpToWidth(val.children[i].value)]])
    ELSE IF val.t \in NumericTypes \ {"BOOLEAN"}
    THEN [t |-> "NUMBER", null |-> FALSE, v |-> val.v]
    ELSE [t |-> val.t, null |-> FALSE, v |-> val.v]

\* C15: for every value V the codec encodes, reading ValueToSQL(V) back as
\* a literal succeeds and gives a value equal to V (up to the type of a NULL
\* and the width of a number).
C15_RoundTrip ==
    last.op = "ParseLiteral" =>
        /\ last.ok
        /\ SameUpToWidth(last.value) = SameUpToWidth(last.args[1])

\* what the caller of a structured call supplied as the named record: the
\* column aliased kwargs, else the second column when it has no alias
NamedRecord(columns) ==
    IF \E i \in 1..Len(columns) : columns[i].alias = s_kwargs
    THEN columns[CHOOSE i \in 1..Len(columns) : columns[i].alias = s_kwargs].value
    ELSE IF Len(columns) >= 2 /\ columns[2].alias = EmptyString THEN columns[2].value
    ELSE NullValue

\* the elements of what the caller supplied as the positional list
PositionalElements(columns) ==
    LET Elements(list) == IF ~list.null /\ list.t = "LIST" THEN list.children ELSE <<>>
    IN IF \E i \in 1..Len(columns) : columns[i].alias = s_args
       THEN Elements(columns[CHOOSE i \in 1..Len(columns) : columns[i].alias = s_args].value)
       ELSE IF Len(columns) >= 1 /\ columns[1].alias = EmptyString
       THEN Elements(columns[1].value)
       ELSE <<>>

NonEmptyRecord(val) == ~val.null /\ val.t = "STRUCT" /\ val.children # <<>>

\* the call answered failed before anything was bound or evaluated
FailedUnexecuted(call) ==
    /\ ~call.ok
    /\ \A i \in 1..Len(call.trace) : call.trace[i].e \notin {"Bind", "Evaluate"}

\* the call answered as r answers, up to the entry point named in an error
SameAnswer(call, r) ==
    /\ call.ok = r.ok
    /\ call.value = r.value
    /\ call.err.type = r.err.type
    /\ call.err.name = r.err.name
    /\ call.trace = r.trace

\* what C16 says of one apply_with call with function name n and columns c
StructuredDispatch(context, n, c) ==
    apply_with(context, n, c) =>
        IF NonEmptyRecord(NamedRecord(c))
        THEN FailedUnexecuted(last')
        ELSE SameAnswer(last', ApplyScalarFun(security_configs, context, n,
                                              PositionalElements(c)))

DocumentedDefaults ==
    [ mode           |-> "none",
      blacklist      |-> { n_load, n_install, n_uninstall, n_force_install, n_system, n_getenv,
                           n_export_database, n_import_database, n_create_secret,
                           n_drop_secret },
      whitelist      |-> {},
      validator_func |-> EmptyString,
      on_block       |-> "error",
      block_default  |-> NullValue,
      locked         |-> FALSE ]

\* the field an operation may write
WrittenBy(op) ==
    IF op = "set_security_mode" THEN {"mode"}
    ELSE IF op = "set_blacklist" THEN {"blacklist"}
    ELSE IF op = "set_whitelist" THEN {"whitelist"}
    ELSE IF op = "set_validator" THEN {"validator_func"}
    ELSE IF op = "set_on_block" THEN {"on_block"}
    ELSE IF op = "set_block_default" THEN {"block_default"}
    ELSE IF op = "lock_security" THEN {"locked"}
    ELSE {}

\* the call being answered looked the session's config up
Accessed(call) == \E i \in 1..Len(call.trace) : call.trace[i].e = "GetSecurityConfig"

\* C17: the first access to a session's config by any operation creates it
\* with the documented defaults (the operation itself may then write its own
\* field), and a config once created stays in the map and is never reset:
\* every field the operation does not write keeps its value.
C17_LazyDefaultsNeverReset ==
    [][Idle =>
         \A c \in Contexts :
            LET before == IF c \in DOMAIN security_configs THEN security_configs[c]
                          ELSE DocumentedDefaults
            IN /\ c \in DOMAIN security_configs => c \in DOMAIN security_configs'
               /\ (c = last'.context /\ Accessed(last')) => c \in DOMAIN security_configs'
               /\ c \in DOMAIN security_configs' =>
                     \A f \in DOMAIN DocumentedDefaults \ WrittenBy(last'.op) :
                        security_configs'[c][f] = before[f]
               /\ (c \in DOMAIN security_configs' /\ c \notin DOMAIN security_configs) =>
                     c = last'.context /\ Accessed(last')]_vars

\* a later access found the config as an earlier setter left it, the other
\* fields still at their defaults
C17_Witness ==
    /\ last.op = "get_security_config"
    /\ last.context \in DOMAIN security_configs
    /\ security_configs[last.context] = [DocumentedDefaults EXCEPT !.whitelist = {n_upper}]

\* C18: on an unlocked session set_blacklist(L) and set_whitelist(L) succeed
\* and leave the target set equal to exactly the lower-cased non-NULL
\* elements of L, nothing of the previous set surviving; so under
\* mode=blacklist with the blacklist emptied no checked call is denied.
C18_ListsReplacedWholesale ==
    /\ (last.op = "set_blacklist" /\ ~InForce.locked) =>
          last.ok /\ InForce.blacklist = FoldedNames(last.args[1])
    /\ (last.op = "set_whitelist" /\ ~InForce.locked) =>
          last.ok /\ InForce.whitelist = FoldedNames(last.args[1])
    /\ (Checked /\ InForce.mode = "blacklist" /\ InForce.blacklist = {}) => ~Denied

\* getenv, on the pre-seeded blacklist, runs under mode=blacklist once the
\* blacklist was replaced by the empty list
C18_Witness ==
    /\ last.op = "apply"
    /\ Checked
    /\ InForce.mode = "blacklist"
    /\ InForce.blacklist = {}
    /\ last.name = StrV(n_GetEnv)
    /\ last.ok

\* the enumerated values of the two settings
EnumeratedModes == {"none", "blacklist", "whitelist", "validator"}
EnumeratedOnBlocks == {"error", "null", "default"}

\* the step answers set_security_mode or set_on_block, called on an
\* unlocked session with a value outside the enumerated set
InvalidSetting ==
    /\ Idle
    /\ \/ last'.op = "set_security_mode" /\ last'.args[1] \notin EnumeratedModes
       \/ last'.op = "set_on_block" /\ last'.args[1] \notin EnumeratedOnBlocks
    /\ ~Config(security_configs, last'.context).locked

\* C19: in every reachable state every config has its mode among none,
\* blacklist, whitelist, validator and its on_block among error, null,
\* default; set_security_mode and set_on_block called on an unlocked session
\* with any other value fail with InvalidArgument and leave the whole config
\* as it was (the defaults, when the call was the session's first access).
C19_EnumeratedSettings ==
    /\ [](\A c \in DOMAIN security_configs :
             /\ security_configs[c].mode \in EnumeratedModes
             /\ security_configs[c].on_block \in EnumeratedOnBlocks)
    /\ [][InvalidSetting =>
             /\ ~last'.ok
             /\ last'.err.type = "InvalidArgument"
             /\ Config(security_configs', last'.context)
                  = Config(security_configs, last'.context)]_vars

C19_Witness ==
    /\ last.op = "set_on_block"
    /\ last.args[1] = "ignore"
    /\ ~last.ok
    /\ last.err.type = "InvalidArgument"
    /\ ~InForce.locked
    /\ InForce.mode = "whitelist"

(***************************************************************************)
(* Two worker threads of one session evaluating rows of configuration      *)
(* functions at the same time.  security_config_mutex is held inside       *)
(* GetSecurityConfig only; the handler then reads config.locked and writes *)
(* its field through the reference, each access a step of its own.  Here   *)
(* last maps each thread to the call it is in, the trace of the call       *)
(* telling how far it got.                                                 *)
(***************************************************************************)
Threads == {"t1", "t2"}

\* how far a call got: its last step
Position(call) == IF call.trace = <<>> THEN "entered" ELSE call.trace[Len(call.trace)].e

\* the thread is between rows
Free(t) == last[t].op = "none" \/ Position(last[t]) = "return"

\* the handler is entered for a row
Enter(t, context, op, arg) ==
    /\ last' = [last EXCEPT ![t] = [NoCall EXCEPT !.op = op, !.context = context,
                                                  !.args = <<arg>>]]
    /\ UNCHANGED <<security_configs, security_config_mutex>>

\* SetSecurityModeScalarFun: the lambda is called for a row
EnterSetSecurityMode(t, context, mode_str) ==
    /\ Free(t)
    /\ Enter(t, context, "set_security_mode", mode_str)

\* LockSecurityScalarFun: the loop body starts for a row
EnterLockSecurity(t, context) ==
    /\ Free(t)
    /\ Enter(t, context, "lock_security", NullValue)

\* auto &config = GetSecurityConfig(context), under the mutex
Lookup(t) ==
    /\ last[t].op # "none"
    /\ Position(last[t]) = "entered"
    /\ security_configs' = GetSecurityConfig(security_configs, last[t].context)
    /\ last' = [last EXCEPT ![t].trace = <<Ev("GetSecurityConfig", EmptyString)>>]
    /\ UNCHANGED security_config_mutex

\* if (config.locked) throw ...; the value check of the mode follows
CheckLocked(t) ==
    /\ Position(last[t]) = "GetSecurityConfig"
    /\ LET config == security_configs[last[t].context]
           r == IF last[t].op = "lock_security" THEN LockSecurity(config)
                ELSE SetSecurityMode(config, last[t].args[1])
       IN last' = [last EXCEPT ![t].trace = Append(@, Ev(IF r.ok THEN "checked" ELSE "return",
                                                         EmptyString)),
                               ![t].ok = r.ok, ![t].err = r.err]
    /\ UNCHANGED <<security_configs, security_config_mutex>>

\* config.mode = mode, or config.locked = true
WriteField(t) ==
    /\ Position(last[t]) = "checked"
    /\ security_configs' =
         [security_configs EXCEPT ![last[t].context] =
             IF last[t].op = "lock_security" THEN [@ EXCEPT !.locked = TRUE]
             ELSE [@ EXCEPT !.mode = last[t].args[1]]]
    /\ last' = [last EXCEPT ![t].trace = Append(@, Ev("written", EmptyString))]
    /\ UNCHANGED security_config_mutex

\* the row's result is stored: the call has returned
Returned(t) ==
    /\ Position(last[t]) = "written"
    /\ last' = [last EXCEPT ![t].trace = Append(@, Ev("return", EmptyString))]
    /\ UNCHANGED <<security_configs, security_config_mutex>>

InitInterleaved ==
    /\ security_configs = <<>>
    /\ last = [t \in Threads |-> NoCall]
    /\ security_config_mutex = ""

NextInterleaved ==
    \E t \in Threads :
        \/ \E context \in Contexts, m \in ModeInputs : EnterSetSecurityMode(t, context, m)
        \/ \E context \in Contexts : EnterLockSecurity(t, context)
        \/ Lookup(t)
        \/ CheckLocked(t)
        \/ WriteField(t)
        \/ Returned(t)

SpecInterleaved == InitInterleaved /\ [][NextInterleaved]_vars

\* some thread's lock_security has returned success
LockReturned ==
    \E t \in Threads :
        /\ last[t].op = "lock_security"
        /\ last[t].ok
        /\ Position(last[t]) = "return"

\* C20: a setter's locked-check and field write are one step with respect
\* to lock_security: once a lock_security call of the session has returned
\* success, no step of a concurrent caller changes a field of the config.
C20_NoWriteAfterLockReturned ==
    [][LockReturned => security_configs' = security_configs]_vars

(***************************************************************************)
(* Two sessions using the extension in turn: the entry points and the      *)
(* configuration functions of the single-session machine, called with      *)
(* either ClientContext.                                                   *)
(***************************************************************************)
Sessions == {"c1", "c2"}

NextSessions ==
    \/ \E context \in Sessions :
        \/ \E n \in {StrV(n_upper), StrV(n_GetEnv), StrV(n_nosuch)} :
              apply(context, n, <<StrV(n_hi)>>)
        \/ \E n \in {StrV(n_range), StrV(n_upper)} : apply_table(context, n, <<>>)
        \/ \E m \in Modes : func_apply_set_security_mode(context, m)
        \/ \E l \in BlacklistInputs : func_apply_set_blacklist(context, l)
        \/ func_apply_lock_security(context)
        \/ func_apply_get_security_config(context)
    \/ Return

SpecSessions == Init /\ [][NextSessions]_vars

\* the map with the configs of the other sessions removed
OnlySession(configs, context) == [c \in DOMAIN configs \cap {context} |-> configs[c]]

\* what the entry point of the call answers when the session is alone
AnswerAlone(call) ==
    IF call.op = "apply"
    THEN ApplyScalarFun(OnlySession(security_configs, call.context), call.context,
                        call.name, call.args)
    ELSE ApplyTableBindReplace(OnlySession(security_configs, call.context), call.context,
                               <<call.name>> \o call.args, <<>>)

\* C21: a step taken for one session leaves the config of every other
\* session as it was (and creates none for it), and a gated call is answered
\* exactly as it would be with the other sessions' configs absent.
C21_SessionsDoNotInterfere ==
    [][Idle =>
         /\ \A c \in Sessions \ {last'.context} :
               /\ c \in DOMAIN security_configs' <=> c \in DOMAIN security_configs
               /\ c \in DOMAIN security_configs => security_configs'[c] = security_configs[c]
         /\ last'.op \in {"apply", "apply_table"} => SameAnswer(last', AnswerAlone(last'))]_vars

\* getenv is refused in a session under mode=blacklist while the other
\* session, under mode=whitelist and locked, is configured differently
C21_Witness ==
    /\ last.op = "apply"
    /\ last.context = "c2"
    /\ last.name = StrV(n_GetEnv)
    /\ Denied
    /\ DOMAIN security_configs = Sessions
    /\ security_configs["c2"].mode = "blacklist"
    /\ security_configs["c1"].mode = "whitelist"
    /\ security_configs["c1"].locked

(***************************************************************************)
(* ValidateFunctionCall step by step, with security_config_mutex explicit: *)
(* two worker threads of one session run gated calls; the validator's body *)
(* may itself call apply(), which validates again.  last maps each thread  *)
(* to its call, the trace telling how far it got.                          *)
(***************************************************************************)
\* how deep validator bodies may call back into the extension
MaxNesting == 2

\* validator bodies the call is inside of
Depth(call) == EventCount(call.trace, "CallValidator") - EventCount(call.trace, "EndValidator")

Step(t, e) == last' = [last EXCEPT ![t].trace = Append(@, Ev(e, EmptyString))]

\* variant: the guard's destructor leaves the mutex taken
Released_Kept(holder, t) == holder

\* ~lock_guard(): the mutex after thread t leaves the guard's scope
Released(holder, t) == IF holder = t THEN "" ELSE holder

\* ExecuteFunctionInternal calls ValidateFunctionCall for a row
EnterValidate(t, context, func_name) ==
    /\ Free(t)
    /\ last' = [last EXCEPT ![t] = [NoCall EXCEPT !.op = "apply", !.context = context,
                                                  !.name = StrV(func_name)]]
    /\ UNCHANGED <<security_configs, security_config_mutex>>

\* lock_guard<mutex> lock(security_config_mutex): waits while it is taken
LockGuard(t) ==
    /\ last[t].op = "apply"
    /\ Position(last[t]) \in {"entered", "reenter"}
    /\ security_config_mutex = ""
    /\ security_config_mutex' = t
    /\ Step(t, "lock_guard")
    /\ UNCHANGED security_configs

\* security_configs.find(&context), and the insert when it is not there
FindOrInsert(t) ==
    /\ Position(last[t]) = "lock_guard"
    /\ security_configs' = GetSecurityConfig(security_configs, last[t].context)
    /\ Step(t, "find")
    /\ UNCHANGED security_config_mutex

\* GetSecurityConfig returns the reference: the guard goes out of scope
Unlock(t) ==
    /\ Position(last[t]) = "find"
    /\ security_config_mutex' = Released(security_config_mutex, t)
    /\ Step(t, "config")
    /\ UNCHANGED security_configs

\* variant: a call made from inside a validator's body is not validated again
Decide_Guarded(t) == Position(last[t]) = "config" /\ Step(t, IF security_configs[last[t].context].mode = "validator" /\ security_configs[last[t].context].validator_func # EmptyString /\ Depth(last[t]) = 0 THEN "CallValidator" ELSE IF Depth(last[t]) = 0 THEN "return" ELSE "nested return") /\ UNCHANGED <<security_configs, security_config_mutex>>

\* the mode is read: validator mode calls the validator, the other modes
\* answer at once
Decide(t) ==
    /\ Position(last[t]) = "config"
    /\ LET config == security_configs[last[t].context]
       IN IF config.mode = "validator" /\ config.validator_func # EmptyString
          THEN Step(t, "CallValidator")
          ELSE Step(t, IF Depth(last[t]) = 0 THEN "return" ELSE "nested return")
    /\ UNCHANGED <<security_configs, security_config_mutex>>

\* the validator's body calls apply() (once): ValidateFunctionCall is entered
\* again
ReEnter(t) ==
    /\ Position(last[t]) = "CallValidator"
    /\ Depth(last[t]) < MaxNesting
    /\ Step(t, "reenter")
    /\ UNCHANGED <<security_configs, security_config_mutex>>

\* the validator's body is done
EndValidator(t) ==
    /\ Position(last[t]) \in {"CallValidator", "nested return"}
    /\ Step(t, "EndValidator")
    /\ UNCHANGED <<security_configs, security_config_mutex>>

\* ValidateFunctionCall returns what the validator answered
ValidateReturns(t) ==
    /\ Position(last[t]) = "EndValidator"
    /\ Step(t, IF Depth(last[t]) = 0 THEN "return" ELSE "nested return")
    /\ UNCHANGED <<security_configs, security_config_mutex>>

\* the session is new, or was configured before the calls
InitMutex ==
    /\ security_configs \in
         { <<>> } \cup
         { [c \in Contexts |-> [FuncApplySecurityConfig EXCEPT !.mode = m,
                                                               !.validator_func = n_allow_all]] :
             m \in Modes }
    /\ last = [t \in Threads |-> NoCall]
    /\ security_config_mutex = ""

\* a step of thread t inside a call
Proceed(t) ==
    \/ LockGuard(t)
    \/ FindOrInsert(t)
    \/ Unlock(t)
    \/ Decide(t)
    \/ ReEnter(t)
    \/ EndValidator(t)
    \/ ValidateReturns(t)

NextMutex ==
    \E t \in Threads :
        \/ \E context \in Contexts : EnterValidate(t, context, n_upper)
        \/ Proceed(t)

SpecMutex == InitMutex /\ [][NextMutex]_vars

\* the thread is running a validator's body
InValidatorBody(t) == Position(last[t]) \in {"CallValidator", "nested return"}

\* C22: the config mutex is held only between the guard's construction and
\* the return of GetSecurityConfig: no thread holds it while it runs a
\* validator's body or when it enters ValidateFunctionCall (again), so while
\* any call is under way some thread can take a step (nothing waits for a
\* mutex that a validator, or the waiting thread itself, holds).
C22_MutexOnlyAcrossLookup ==
    /\ \A t \in Threads :
          security_config_mutex = t => Position(last[t]) \in {"lock_guard", "find"}
    /\ (\E t \in Threads : ~Free(t)) => \E t \in Threads : ENABLED Proceed(t)

\* one thread is inside a validator's body that has called back into the
\* extension, while the other thread holds the mutex for its own lookup
C22_Witness ==
    /\ Position(last["t1"]) = "nested return"
    /\ Depth(last["t1"]) = 1
    /\ security_config_mutex = "t2"

\* the value of kind t among the columns of a structured call
ColumnOfKind(call, t) ==
    LET values == call.args \o [i \in 1..Len(call.named) |-> call.named[i].value]
        hits == { i \in 1..Len(values) : ~values[i].null /\ values[i].t = t }
    IN IF hits = {} THEN <<>> ELSE values[CHOOSE i \in hits : \A j \in hits : i <= j].children

\* the positional and the named arguments the caller supplied for the target
SuppliedPositional(call) ==
    IF call.op \in {"apply_with", "apply_table_with"} THEN ColumnOfKind(call, "LIST")
    ELSE call.args
SuppliedNamed(call) ==
    IF call.op \in {"apply_with", "apply_table_with"} THEN ColumnOfKind(call, "STRUCT")
    ELSE call.named

\* the descriptor handed to the validator by the call: that of the first hop
Descriptor(call) ==
    call.trace[CHOOSE i \in Positions(call.trace, "CallValidator") :
                 \A j \in Positions(call.trace, "CallValidator") : i <= j].parameters

\* C23: whenever a gated call is put to the validator, the descriptor's
\* total argument count is the number of positional plus the number of
\* named arguments supplied, and its named sub-record lists every supplied
\* named argument, for the table entry points as for the scalar ones.
C23_DescriptorDescribesCall ==
    (last.op \in Gated /\ EventCount(last.trace, "CallValidator") > 0) =>
        LET parameters == Descriptor(last)
            named == SuppliedNamed(last)
        IN /\ parameters.total_args = Len(SuppliedPositional(last)) + Len(named)
           /\ { parameters.named.arg_names[i] : i \in 1..Len(parameters.named.arg_names) }
                = { named[i].key : i \in 1..Len(named) }

(***************************************************************************)
(* ParseSubquery on its own: texts made of up to three pieces separated by *)
(* semicolons are handed to it.                                            *)
(***************************************************************************)
p_select == s_select \o <<32, 49>>                \* "SELECT 1"
p_quoted == s_select \o <<32, 39, 59, 39>>        \* "SELECT ';'"
p_drop   == <<68, 82, 79, 80, 32, 120>>           \* "DROP x"
p_blank  == <<32>>
p_open   == <<39, 120>>                           \* "'x": a quote left open
Pieces == { p_select, p_quoted, p_drop, p_blank, EmptyString, p_open }
PieceLists ==
    { <<a>> : a \in Pieces } \cup { <<a, b>> : a, b \in Pieces }
    \cup { <<a, b, c>> : a, b, c \in Pieces }

RECURSIVE JoinPieces(_)
JoinPieces(ps) == IF Len(ps) = 1 THEN ps[1] ELSE ps[1] \o <<59>> \o JoinPieces(Tail(ps))

\* ParseSubquery(query, options) has answered
Parse(query) ==
    /\ Idle
    /\ last' = Call("ParseSubquery", "", NullValue, <<StrV(query)>>, <<>>,
                    ParseSubquery(query, <<>>))
    /\ UNCHANGED <<security_configs, security_config_mutex>>

NextParse ==
    \/ \E ps \in PieceLists : Parse(JoinPieces(ps))
    \/ Return

SpecParse == Init /\ [][NextParse]_vars

\* the statements a text made of the pieces ps consists of, by construction
SelectPieces(ps) == { i \in 1..Len(ps) : ps[i] \in {p_select, p_quoted} }
OtherPieces(ps) == { i \in 1..Len(ps) : ps[i] \in {p_drop, p_open} }

\* C24: ParseSubquery returns a subquery exactly when the text is one SELECT
\* statement and nothing else; a text of no statement, of more than one
\* statement, or of a statement that is not a SELECT (or that does not
\* parse) fails and nothing is returned.
C24_SingleSelectOnly ==
    [][(Idle /\ last'.op = "ParseSubquery") =>
          \A ps \in PieceLists :
             last'.args = <<StrV(JoinPieces(ps))>> =>
                /\ last'.ok <=> (Cardinality(SelectPieces(ps)) = 1 /\ OtherPieces(ps) = {})
                /\ last'.ok => last'.value.t = "SUBQUERY" /\ last'.value.v = JoinPieces(ps)
                /\ ~last'.ok => last'.value = NullValue]_vars

\* two SELECT statements in one text were refused
C24_Witness ==
    /\ last.op = "ParseSubquery"
    /\ last.args = <<StrV(JoinPieces(<<p_select, p_quoted>>))>>
    /\ ~last.ok
    /\ last.err.type = "ParseFailure"

(***************************************************************************)
(* Resolution of names of every registration: the scalar entry points, the *)
(* existence test and apply_table called with names registered as scalar   *)
(* and macro (upper), scalar in the default database (my_udf), macro in    *)
(* either catalog (array_append, allow_all), aggregate only (sum), table   *)
(* function only (glob), scalar and table function (range), nothing.       *)
(***************************************************************************)
ResolveNames ==
    { n_upper, n_my_udf, n_array_append, n_allow_all, n_sum, n_glob, n_range,
      n_my_view, n_nosuch }

NextResolve ==
    \/ \E context \in Contexts :
        \/ \E n \in ResolveNames : function_exists(context, n)
        \/ \E n \in ResolveNames, a \in ArgLists : apply(context, StrV(n), a)
        \/ \E n \in ResolveNames, c \in StructuredColumns : apply_with(context, StrV(n), c)
        \/ \E n \in ResolveNames : apply_table(context, StrV(n), <<>>)
        \/ \E m \in Modes : func_apply_set_security_mode(context, m)
    \/ Return

SpecResolve == Init /\ [][NextResolve]_vars

\* the call got as far as classifying the requested name
Classified == EventCount(last.trace, "GetCallableFunctionType") > 0

\* the paths the call bound its callable on
BoundOn == { last.trace[i].kind : i \in Positions(last.trace, "Bind") }

\* C25: a scalar call that classifies its name binds it on the scalar path
\* when the name is registered as a scalar function in either catalog (also
\* when it is a macro as well), on the macro path when it is registered as
\* a macro and not as a scalar function, and fails with NotFound, binding
\* nothing, exactly when it is registered as neither, whatever else it is.
C25_ScalarThenMacro ==
    (last.op \in {"apply", "apply_with"} /\ Classified) =>
        LET scalar == RegisteredAs(last.name.v, {SCALAR_FUNCTION_ENTRY})
            macro == RegisteredAs(last.name.v, {MACRO_ENTRY})
        IN /\ scalar => BoundOn = {"scalar"}
           /\ (~scalar /\ macro) => BoundOn = {"macro"}
           /\ (~scalar /\ ~macro) <=>
                 (~last.ok /\ last.err.type = "NotFound" /\ BoundOn = {})

\* upper, a scalar function and a macro, ran as the scalar function
C25_Witness ==
    /\ last.op = "apply"
    /\ last.name = StrV(n_upper)
    /\ RegisteredAs(n_upper, {MACRO_ENTRY})
    /\ BoundOn = {"scalar"}
    /\ last.ok
    /\ last.value = StrV(n_HI)

\* C26: apply and apply_with on a name the policy lets through that is
\* registered only as table function and/or aggregate fail with NotFound and
\* bind and evaluate nothing; the error says to use apply_table exactly when
\* the name is registered as a table function.
C26_TableOrAggregateOnly ==
    (/\ last.op \in {"apply", "apply_with"}
     /\ Classified
     /\ RegisteredAs(last.name.v, {TABLE_FUNCTION_ENTRY, AGGREGATE_FUNCTION_ENTRY})
     /\ ~RegisteredAs(last.name.v, {SCALAR_FUNCTION_ENTRY, MACRO_ENTRY})) =>
        /\ ~last.ok
        /\ last.err.type = "NotFound"
        /\ \A i \in 1..Len(last.trace) : last.trace[i].e \notin {"Bind", "Evaluate"}
        /\ last.err.detail = "is a table function"
              <=> RegisteredAs(last.name.v, {TABLE_FUNCTION_ENTRY})

\* sum, an aggregate, was refused without the hint
C26_Witness ==
    /\ last.op = "apply_with"
    /\ last.name = StrV(n_sum)
    /\ Classified
    /\ ~last.ok
    /\ last.err.type = "NotFound"
    /\ last.err.detail = "does not exist"

(***************************************************************************)
(* C27: the existence predicates against the categories of the entries.   *)
(***************************************************************************)
FunctionCategories ==
    {SCALAR_FUNCTION_ENTRY, AGGREGATE_FUNCTION_ENTRY, TABLE_FUNCTION_ENTRY, MACRO_ENTRY}

\* function_exists has answered about last.name
ExistsAnswered == last.op = "function_exists" /\ last.ok /\ ~last.name.null

\* C27: with a lookup that matches by name only, FunctionExistsOfType(name, c)
\* holds only if a scope has an entry of that name tagged c, and
\* function_exists(name) is true exactly when a scope has an entry of that
\* name whose own category is Scalar, Aggregate, TableFunction or Macro.
C27_ExistenceRechecksCategory ==
    /\ \A name \in ResolveNames : \A c \in FunctionCategories :
           FunctionExistsOfType(name, c) => RegisteredAs(name, {c})
    /\ ExistsAnswered =>
           (last.value = BoolV(TRUE) <=> RegisteredAs(last.name.v, FunctionCategories))

(***************************************************************************)
(* The text composed for a table call: apply_table with named parameters   *)
(* and apply_table_with, for up to MaxItems positional and named items.    *)
(***************************************************************************)
MaxItems == 2

n_j == <<106>>
n_m == <<109>>
\* "k)": a field name that is no identifier
n_k_paren == <<107, 41>>
ItemKeys == {n_k, n_j, n_m, n_k_paren}
ItemValues == { StrV(n_hi), IntV(<<55>>) }
PositionalLists == UNION { [1..p -> ItemValues] : p \in 0..MaxItems }
\* named parameters in the order the map hands them out; keys are distinct
NamedLists ==
    { named \in UNION { [1..n -> [key : ItemKeys, value : ItemValues]] : n \in 0..MaxItems } :
        \A i, j \in 1..Len(named) : named[i].key = named[j].key => i = j }
TableNames == { n_range, n_glob }

\* apply_table(func, ...args, key := value, ...)
apply_table_named(context, func_name_val, func_args, named_parameters) ==
    /\ Idle
    /\ Respond("apply_table", context, func_name_val, func_args, named_parameters,
               ApplyTableBindReplace(security_configs, context,
                                     <<func_name_val>> \o func_args, named_parameters))

\* the columns of apply_table_with(func, [args], {kwargs}); a record has at
\* least one field
ComposeColumns(args, named) ==
    IF named = <<>> THEN << Column(EmptyString, ListV(args)) >>
    ELSE << Column(EmptyString, ListV(args)), Column(EmptyString, StructV(named)) >>

NextCompose ==
    \/ \E context \in Contexts, n \in TableNames, args \in PositionalLists, named \in NamedLists :
           apply_table_named(context, StrV(n), args, named)
    \/ \E context \in Contexts, n \in TableNames, args \in PositionalLists, named \in NamedLists :
           apply_table_with(context, StrV(n), ComposeColumns(args, named))
    \/ Return

SpecCompose == Init /\ [][NextCompose]_vars

RECURSIVE JoinItems(_)
\* the items with ", " between neighbours
JoinItems(items) ==
    IF items = <<>> THEN <<>>
    ELSE IF Len(items) = 1 THEN items[1]
    ELSE items[1] \o <<44, 32>> \o JoinItems(Tail(items))

\* the text handed to the parser by the call
ComposedText(call) ==
    call.trace[CHOOSE i \in Positions(call.trace, "ParseQuery") : TRUE].n

Composed == last.op \in TableOps /\ EventCount(last.trace, "ParseQuery") > 0

\* C28: the text composed by apply_table and apply_table_with is
\* "SELECT * FROM <name>(" then the encoded positional arguments in call
\* order, then the items "<key> := <encoded value>", all separated by ", ",
\* then one ")": no separator after "(" or before ")".
C28_ComposedText ==
    Composed =>
        LET positional == SuppliedPositional(last)
            named == SuppliedNamed(last)
            items == [i \in 1..Len(positional) |-> ValueToSQL(positional[i])]
                     \o [i \in 1..Len(named) |->
                            named[i].key \o <<32, 58, 61, 32>> \o ValueToSQL(named[i].value)]
        IN ComposedText(last) = s_select_from \o last.name.v \o <<40>> \o JoinItems(items) \o <<41>>

\* apply_table with no positional and two named arguments has composed a text
C28_Witness ==
    /\ Composed
    /\ last.op = "apply_table"
    /\ last.args = <<>>
    /\ Len(last.named) = 2

(***************************************************************************)
(* C29: the quoted segments of an encoded value against its content.       *)
(***************************************************************************)
RECURSIVE QuotedSegments(_, _, _)
\* the quoted segments of a text as a lexer reads them, a doubled quote
\* standing for one quote of content; closed is FALSE when a segment is
\* left open at the end of the text
QuotedSegments(q, i, acc) ==
    IF i > Len(q) THEN [closed |-> TRUE, segments |-> acc]
    ELSE IF q[i] # 39 THEN QuotedSegments(q, i + 1, acc)
    ELSE LET s == ScanQuoted(q, i + 1, <<>>)
         IN IF ~s.ok THEN [closed |-> FALSE, segments |-> acc]
            ELSE QuotedSegments(q, s.next, Append(acc, s.value))

RECURSIVE ContentTexts(_)
RECURSIVE ContentTextsOf(_, _)
\* the texts of a value that come from content and are written between
\* quotes, in the order of writing: texts, text forms, field names
ContentTexts(val) ==
    IF val.null \/ val.t \in NumericTypes THEN <<>>
    ELSE IF val.t \in {"LIST", "STRUCT"} THEN ContentTextsOf(val, 1)
    ELSE <<val.v>>
ContentTextsOf(val, i) ==
    IF i > Len(val.children) THEN <<>>
    ELSE (IF val.t = "STRUCT"
          THEN <<val.children[i].key>> \o ContentTexts(val.children[i].value)
          ELSE ContentTexts(val.children[i]))
         \o ContentTextsOf(val, i + 1)

\* C29: in ValueToSQL(V) every quote of content is doubled inside its quoted
\* segment, at any depth: read by a lexer, the text has only closed quoted
\* segments and they are exactly the content texts of V, in order.
C29_QuotesDoubled ==
    last.op = "ValueToSQL" =>
        LET read == QuotedSegments(last.value.v, 1, <<>>)
        IN read.closed /\ read.segments = ContentTexts(last.args[1])

(***************************************************************************)
(* C30: the order of the steps of a gated call.                            *)
(***************************************************************************)
ClassifyEvents == {"GetCallableFunctionType", "TableFunctionExists"}
ExecuteEvents == {"Bind", "Evaluate", "Synthesize", "ParseQuery"}

\* position i of the call's own steps (not of the validator hop) holds one
\* of the events
OwnStep(i, events) ==
    i \in 1..Len(last.trace) /\ last.trace[i].e \in events /\ ~InHop(last.trace, i)

\* every own step of kind later comes after an own step of kind earlier
ComesAfter(later, earlier) ==
    \A i \in 1..Len(last.trace) :
        OwnStep(i, later) => \E j \in 1..(i - 1) : OwnStep(j, earlier)

\* C30: in apply, apply_with, apply_table and apply_table_with the steps run
\* in the order identifier check, validate, classify, execute/synthesize and
\* the first failing step decides: an invalid name fails InvalidIdentifier
\* with neither policy nor catalog consulted, and a name the policy check
\* refuses is answered as blocked (Blocked, or the blocked value) without
\* being resolved, registered or not, never NotFound or WrongCategory.
C30_StepOrder ==
    (last.op \in Gated /\ ~last.name.null) =>
        /\ ComesAfter({"ValidateFunctionCall"}, {"IsValidIdentifier"})
        /\ ComesAfter(ClassifyEvents, {"ValidateFunctionCall"})
        /\ ComesAfter(ExecuteEvents, ClassifyEvents)
        /\ ~IsValidIdentifier(last.name.v) =>
              /\ ~last.ok
              /\ last.err.type = "InvalidIdentifier"
              /\ last.trace = <<Ev("IsValidIdentifier", last.name.v)>>
        /\ (Checked /\ Refused) =>
              /\ Denied
              /\ ~Resolved
              /\ last.ok \/ last.err.type = "Blocked"

\* a refused name that is registered nowhere has been answered Blocked by
\* apply_table
C30_Witness ==
    /\ last.op = "apply_table"
    /\ last.name = StrV(n_nosuch)
    /\ Checked
    /\ Refused
    /\ ~last.ok
    /\ last.err.type = "Blocked"

(***************************************************************************)
(* C31: a table call the policy refuses.                                   *)
(***************************************************************************)
TableSteps == {"TableFunctionExists", "GetCallableFunctionType", "Synthesize", "ParseQuery"}

\* C31: apply_table / apply_table_with on a name the policy refuses fails
\* with Blocked whatever on_block says (error, null, default): no blocked
\* value is returned, and the name is neither looked up nor written into a
\* query text nor parsed.
C31_DeniedTableCallFails ==
    (last.op \in TableOps /\ Checked /\ Refused) =>
        /\ ~last.ok
        /\ last.err.type = "Blocked"
        /\ last.err.name = last.name.v
        /\ EventCount(last.trace, "GetBlockedValue") = 0
        /\ \A i \in 1..Len(last.trace) :
              last.trace[i].e \in TableSteps => InHop(last.trace, i)

\* a refused apply_table_with has failed although on_block = default and a
\* default value is stored
C31_Witness ==
    /\ last.op = "apply_table_with"
    /\ last.name = StrV(n_range)
    /\ Checked
    /\ Refused
    /\ InForce.on_block = "default"
    /\ InForce.block_default # NullValue
    /\ ~last.ok
    /\ last.err.type = "Blocked"

(***************************************************************************)
(* C32: what stands in identifier position of the composed text.           *)
(***************************************************************************)
\* piece occurs in text
Contains(text, piece) ==
    \E i \in 1..(Len(text) - Len(piece) + 1) : SubSeq(text, i, i + Len(piece) - 1) = piece

\* C32: in the text composed for a table call the function name and every
\* named-argument key written before " := " satisfy the identifier grammar.
C32_IdentifierPositions ==
    Composed =>
        /\ IsValidIdentifier(last.name.v)
        /\ \A i \in 1..Len(SuppliedNamed(last)) :
              Contains(ComposedText(last), SuppliedNamed(last)[i].key \o s_assign) =>
                  IsValidIdentifier(SuppliedNamed(last)[i].key)

(***************************************************************************)
(* Two worker threads of one session, one replacing a list while the other *)
(* validates a name.  The list setters hold no lock after GetSecurityConfig *)
(* has returned: clear() and each insert() are steps of their own, and the  *)
(* find() of ValidateFunctionCall reads the set as it is at that moment.    *)
(* The session starts with both lists holding upper and getenv, in mode     *)
(* blacklist or whitelist; every list installed holds upper.                *)
(***************************************************************************)
ListSetters == {"set_blacklist", "set_whitelist"}
OldList == {n_upper, n_getenv}
ReplaceLists ==
    { ListV(<< StrV(n_Upper) >>),
      ListV(<< StrV(n_getenv), StrV(n_Upper) >>),
      ListV(<< TypedNull("VARCHAR"), StrV(n_upper) >>) }

InitReplace ==
    /\ security_configs \in
         { [c \in Contexts |-> [FuncApplySecurityConfig EXCEPT
                                   !.mode = m, !.on_block = b,
                                   !.blacklist = OldList, !.whitelist = OldList]] :
             m \in {"blacklist", "whitelist"}, b \in {"error", "null"} }
    /\ last = [t \in Threads |-> NoCall]
    /\ security_config_mutex = ""

\* SetBlacklistScalarFun / SetWhitelistScalarFun: the loop body starts for a row
EnterSetList(t, context, op, list_val) ==
    /\ Free(t)
    /\ Enter(t, context, op, list_val)

\* ValidateFunctionCall is entered for a name
EnterValidateCall(t, context, func_name) ==
    /\ Free(t)
    /\ last' = [last EXCEPT ![t] = [NoCall EXCEPT !.op = "validate", !.context = context,
                                                  !.name = StrV(func_name)]]
    /\ UNCHANGED <<security_configs, security_config_mutex>>

\* if (config.locked) throw ...
CheckLockedList(t) ==
    /\ last[t].op \in ListSetters
    /\ Position(last[t]) = "GetSecurityConfig"
    /\ LET config == security_configs[last[t].context]
       IN last' = [last EXCEPT
                     ![t].trace = Append(@, Ev(IF config.locked THEN "return" ELSE "checked",
                                               EmptyString)),
                     ![t].ok = ~config.locked,
                     ![t].err = IF config.locked THEN Locked(config).err ELSE NoError]
    /\ UNCHANGED <<security_configs, security_config_mutex>>

\* the list with names put in place of the one the setter writes
WithList(config, op, names) ==
    IF op = "set_blacklist" THEN [config EXCEPT !.blacklist = names]
    ELSE [config EXCEPT !.whitelist = names]
ListOf(config, op) == IF op = "set_blacklist" THEN config.blacklist ELSE config.whitelist

\* config.blacklist.clear() / config.whitelist.clear()
ClearList(t) ==
    /\ last[t].op \in ListSetters
    /\ Position(last[t]) = "checked"
    /\ security_configs' = [security_configs EXCEPT ![last[t].context] =
                               WithList(@, last[t].op, {})]
    /\ last' = [last EXCEPT ![t].trace = Append(@, Ev("clear", EmptyString))]
    /\ UNCHANGED security_config_mutex

\* the children of the list argument, none when it is NULL or no list
ChildrenOf(list_val) ==
    IF ~list_val.null /\ list_val.t = "LIST" THEN list_val.children ELSE <<>>

\* the child the loop over the children is at
NextChild(call) == EventCount(call.trace, "insert") + 1

\* one round of the loop: if (!child.IsNull()) config.blacklist.insert(Lower(child))
InsertChild(t) ==
    /\ last[t].op \in ListSetters
    /\ Position(last[t]) \in {"clear", "insert"}
    /\ NextChild(last[t]) <= Len(ChildrenOf(last[t].args[1]))
    /\ LET child == ChildrenOf(last[t].args[1])[NextChild(last[t])]
       IN security_configs' = [security_configs EXCEPT ![last[t].context] =
              WithList(@, last[t].op,
                       ListOf(@, last[t].op)
                       \cup (IF child.null THEN {} ELSE {Lower(child.v)}))]
    /\ last' = [last EXCEPT ![t].trace = Append(@, Ev("insert", EmptyString))]
    /\ UNCHANGED security_config_mutex

\* result.SetValue(i, "... set with N functions")
SetListValue(t) ==
    /\ last[t].op \in ListSetters
    /\ Position(last[t]) \in {"clear", "insert"}
    /\ NextChild(last[t]) > Len(ChildrenOf(last[t].args[1]))
    /\ LET names == ListOf(security_configs[last[t].context], last[t].op)
       IN last' = [last EXCEPT
                     ![t].trace = Append(@, Ev("return", EmptyString)),
                     ![t].value = Message("set with", to_string(Cardinality(names)))]
    /\ UNCHANGED <<security_configs, security_config_mutex>>

\* the mode is read and the name looked for in the list; the answer, or the
\* exception of on_block = error
FindInList(t) ==
    /\ last[t].op = "validate"
    /\ Position(last[t]) = "GetSecurityConfig"
    /\ LET Answered(r) ==
               last' = [last EXCEPT ![t].trace = Append(@, Ev("return", EmptyString)),
                                    ![t].ok = r.ok, ![t].err = r.err,
                                    ![t].value = BoolV(r.allowed)]
       IN Answered(ValidateFunctionCall(security_configs, last[t].context,
                                        last[t].name.v, <<>>, <<>>))
    /\ UNCHANGED <<security_configs, security_config_mutex>>

NextReplace ==
    \E t \in Threads :
        \/ \E context \in Contexts, op \in ListSetters, l \in ReplaceLists :
              EnterSetList(t, context, op, l)
        \/ \E context \in Contexts : EnterValidateCall(t, context, n_Upper)
        \/ Lookup(t)
        \/ CheckLockedList(t)
        \/ ClearList(t)
        \/ InsertChild(t)
        \/ SetListValue(t)
        \/ FindInList(t)

SpecReplace == InitReplace /\ [][NextReplace]_vars

\* C33: a list is replaced in one step for a concurrent validate of the
\* session: a name that is in the old and in the new blacklist is denied in
\* every interleaving of set_blacklist with validate under mode blacklist,
\* and a name in the old and in the new whitelist is allowed in every
\* interleaving of set_whitelist with validate under mode whitelist.  Here
\* upper is in every list the session ever holds.
C33_ListReplacedAtomically ==
    \A t \in Threads :
        (last[t].op = "validate" /\ Position(last[t]) = "return") =>
            LET mode == security_configs[last[t].context].mode
            IN /\ mode = "blacklist" => last[t].value = BoolV(FALSE)
               /\ mode = "whitelist" => (last[t].ok /\ last[t].value = BoolV(TRUE))

(***************************************************************************)
(* C34: the operations that do not write the policy.                       *)
(***************************************************************************)
ReadOnlyOps ==
    Gated \cup {"function_exists", "apply_bind", "apply_with_bind", "get_security_config"}

\* the call answered is a setter (or lock_security) that failed
FailedSetter(call) == call.op \in SetterOps \cup {"lock_security"} /\ ~call.ok

Expression(foldable, raises, value) ==
    [foldable |-> foldable, raises |-> raises, value |-> value]

\* a constant, a column reference, a constant expression whose evaluation
\* fails (a cast of an unfit text, say)
Constant(value) == Expression(TRUE, FALSE, value)
ColumnRef == Expression(FALSE, FALSE, NullValue)
FailingConstant == Expression(TRUE, TRUE, NullValue)

\* the exception of EvaluateScalar, passed on by the caller
EvaluateScalarThrows == Fail(Err("EvalFailure", EmptyString, "EvaluateScalar"), <<>>)

\* BindApply on the argument expressions: the name is evaluated when it is
\* foldable, and on the macro path so is every foldable argument, before
\* the try block
BindApplyExpressions(arguments) ==
    LET name == arguments[1]
        rest == Tail(arguments)
    IN IF ~name.foldable THEN BindApply(FALSE, name.value, Len(rest))
       ELSE IF name.raises THEN EvaluateScalarThrows
       ELSE IF /\ ~name.value.null
               /\ IsValidIdentifier(name.value.v)
               /\ GetCallableFunctionType(name.value.v) = MACRO_ENTRY
               /\ \E i \in 1..Len(rest) : rest[i].foldable /\ rest[i].raises
       THEN EvaluateScalarThrows
       ELSE BindApply(TRUE, name.value, Len(rest))

\* BindApplyWith on the argument expressions: only the name is evaluated
BindApplyWithExpressions(arguments) ==
    LET name == arguments[1]
    IN IF ~name.foldable THEN BindApplyWith(FALSE, name.value)
       ELSE IF name.raises THEN EvaluateScalarThrows
       ELSE BindApplyWith(TRUE, name.value)

ProbeNames == { n_upper, n_my_udf, n_array_append, n_allow_all, n_sum, n_nosuch, n_1x }
NameExpressions ==
    { Constant(StrV(n)) : n \in ProbeNames }
    \cup { Constant(TypedNull("VARCHAR")), ColumnRef, FailingConstant }
ArgumentExpressions == { Constant(StrV(n_hi)), ColumnRef, FailingConstant }
ArgumentLists == UNION { [1..n -> ArgumentExpressions] : n \in 0..MaxItems }

\* the binder calls BindApply for apply(name, args...)
bind_apply(context, name, rest) ==
    /\ Idle
    /\ Respond("apply_bind", context, name.value, <<name>> \o rest, <<>>,
               BindApplyExpressions(<<name>> \o rest))

\* the binder calls BindApplyWith for apply_with(name, args...)
bind_apply_with(context, name, rest) ==
    /\ Idle
    /\ Respond("apply_with_bind", context, name.value, <<name>> \o rest, <<>>,
               BindApplyWithExpressions(<<name>> \o rest))

NextProbe ==
    \/ \E context \in Contexts, name \in NameExpressions, rest \in ArgumentLists :
           bind_apply(context, name, rest)
    \/ \E context \in Contexts, name \in NameExpressions, rest \in ArgumentLists :
           bind_apply_with(context, name, rest)
    \/ Return

SpecProbe == Init /\ [][NextProbe]_vars

\* the probe has nothing to infer from: the name is no constant, is NULL or
\* no identifier, names nothing callable, or the binder rejects the arguments
NothingToInfer(call) ==
    LET name == call.args[1]
    IN \/ ~name.foldable
       \/ name.value.null
       \/ ~IsValidIdentifier(name.value.v)
       \/ GetCallableFunctionType(name.value.v) = INVALID
       \/ call.op = "apply_bind"
          /\ ~BinderAccepts(name.value.v, [i \in 1..(Len(call.args) - 1) |-> NullValue])

\* C35: the bind-time probe of apply and apply_with never ends with an
\* error and never evaluates the target; with a name that is no constant,
\* NULL or invalid, of no callable category, or with arguments the binder
\* rejects, the return type stays VARCHAR.
C35_ProbeNeverFails ==
    last.op \in {"apply_bind", "apply_with_bind"} =>
        /\ last.ok
        /\ EventCount(last.trace, "Evaluate") = 0
        /\ NothingToInfer(last) => last.value = TypedNull("VARCHAR")

(***************************************************************************)
(* C36: calls made from inside the validator's body.                       *)
(***************************************************************************)
\* the session of the call is in validator mode with a validator set
ValidatorInForce(call) ==
    /\ call.context \in DOMAIN security_configs
    /\ security_configs[call.context].mode = "validator"
    /\ security_configs[call.context].validator_func # EmptyString

\* the call has returned to its caller without its validator's body having
\* called back into the extension
ReturnedWithoutReentry(call) ==
    /\ call.op = "apply"
    /\ Position(call) = "return"
    /\ EventCount(call.trace, "reenter") = 0

\* C36: in validator mode a call made from inside the validator's body is
\* validated like any other and calls the validator again, one level
\* deeper, whatever the depth: nothing in the code bounds the nesting.  A
\* gated call whose validator body never calls back performs exactly one
\* validator hop and returns.
C36_UnguardedReentrancy ==
    /\ [](\A t \in Threads :
             (ReturnedWithoutReentry(last[t]) /\ ValidatorInForce(last[t])) =>
                 /\ EventCount(last[t].trace, "CallValidator") = 1
                 /\ EventCount(last[t].trace, "EndValidator") = 1)
    /\ [][\A t \in Threads :
             (/\ Position(last[t]) = "config"
              /\ ValidatorInForce(last[t])
              /\ last'[t] # last[t]) =>
                 /\ Position(last'[t]) = "CallValidator"
                 /\ Depth(last'[t]) = Depth(last[t]) + 1]_vars

\* a validator called from a validator's body called from a validator's
\* body ... as deep as the model goes
C36_Witness ==
    /\ Position(last["t1"]) = "CallValidator"
    /\ Depth(last["t1"]) = MaxNesting
    /\ EventCount(last["t1"].trace, "reenter") = MaxNesting - 1

====
